---- MODULE Spec2Model ----
(***************************************************************************)
(* A model of the VRChat avatar manager (src/SMP.py): the Worker/thread     *)
(* pool layer, the login and two-factor flow, the paginated avatar fetch,   *)
(* the local filter/pagination view and the download dispatch.              *)
(*                                                                          *)
(* The GUI thread is modelled as an event loop with a stack of suspended    *)
(* handlers: a handler that calls QApplication.processEvents() or opens a   *)
(* modal dialog (exec) is suspended in a frame, and events are delivered    *)
(* re-entrantly on top of it.  Signals emitted by a Worker are queued       *)
(* connections: they are appended to mainq and handled in FIFO order.       *)
(* A QMessageBox at the very end of a handler is not modelled as a frame:   *)
(* nothing follows it in the handler.                                       *)
(***************************************************************************)
EXTENDS Integers, Sequences, FiniteSets, TLC

VARIABLES
    api_client,        \* VRChatManager.api_client: 0 is None, else a session id
    temp_api_client,   \* VRChatManager.temp_api_client (0: attribute not set yet)
    login_btn,         \* login_btn.isEnabled()
    authed,            \* history: the sessions the server has authenticated
    tasks,             \* the Workers handed to the thread pool, by task id
    mainq,             \* queued signal deliveries for the GUI thread, FIFO
    stack,             \* suspended handlers of the GUI thread, innermost last
    timers,            \* pending QTimer.singleShot callbacks, as counts by name
    search_input,      \* search_input.text()
    avatars_data,      \* VRChatManager.avatars_data
    filtered_avatars,  \* VRChatManager.filtered_avatars
    current_page,      \* VRChatManager.current_page
    items_per_page,    \* VRChatManager.items_per_page
    pagination,        \* PaginationWidget: current_page, total_pages, items_per_page
    avatar_grid,       \* the cards in avatar_grid, in layout order
    download_btn,      \* download_btn.isEnabled() (the Download File button)
    worker,            \* VRChatManager.worker: task id of the last download Worker, 0 unset
    file_url_input,    \* file_url_input.text()
    progress_log       \* history: progress emissions as <<computing task, emitting Worker>>

authVars == <<api_client, temp_api_client, login_btn, authed>>
poolVars == <<tasks, mainq>>
viewVars == <<search_input, avatars_data, filtered_avatars, current_page,
              items_per_page, pagination, avatar_grid>>
dlVars   == <<download_btn, worker, file_url_input, progress_log>>
vars     == <<api_client, temp_api_client, login_btn, authed, tasks, mainq, stack,
              timers, search_input, avatars_data, filtered_avatars, current_page,
              items_per_page, pagination, avatar_grid, download_btn, worker,
              file_url_input, progress_log>>

----------------------------------------------------------------------------
(* Bounds of the model. *)

MaxLogins == 2     \* login Workers started in one behaviour
MaxVerifies == 2   \* two-factor verification Workers
MaxFetches == 2    \* avatar list fetch Workers
MaxDetails == 1    \* avatar detail fetch Workers
MaxDownloads == 2  \* file download Workers
MaxDepth == 2      \* suspended handlers on the GUI thread's stack
MaxTimers == 1     \* pending single-shot timers of one kind

(* Program constants. *)

page_size == 100           \* fetch_avatars_worker: records asked per request
max_pages == 10            \* fetch_avatars_worker: the page cap
DefaultItemsPerPage == 50  \* PaginationWidget.__init__ / VRChatManager.__init__
HttpOk == 200

Max(a, b) == IF a >= b THEN a ELSE b
Min(a, b) == IF a <= b THEN a ELSE b

----------------------------------------------------------------------------
(* Strings.  Python's `sub in s` is substring search. *)

Contains(sub, s) ==
    \E i \in 1..(Len(s) - Len(sub) + 1) : SubSeq(s, i, i + Len(sub) - 1) = sub

LowerChar(c) ==
    CASE c = "A" -> "a" [] c = "B" -> "b" [] c = "C" -> "c" [] c = "D" -> "d"
      [] c = "E" -> "e" [] c = "F" -> "f" [] c = "G" -> "g" [] c = "H" -> "h"
      [] c = "I" -> "i" [] c = "J" -> "j" [] c = "K" -> "k" [] c = "L" -> "l"
      [] c = "M" -> "m" [] c = "N" -> "n" [] c = "O" -> "o" [] c = "P" -> "p"
      [] c = "Q" -> "q" [] c = "R" -> "r" [] c = "S" -> "s" [] c = "T" -> "t"
      [] c = "U" -> "u" [] c = "V" -> "v" [] c = "W" -> "w" [] c = "X" -> "x"
      [] c = "Y" -> "y" [] c = "Z" -> "z" [] OTHER -> c

RECURSIVE Lower(_)
Lower(s) ==
    IF Len(s) = 0 THEN ""
    ELSE LowerChar(SubSeq(s, 1, 1)) \o Lower(SubSeq(s, 2, Len(s)))

----------------------------------------------------------------------------
(* Avatar records.  A list record is identified by its index in the server's  *)
(* listing; its text fields are looked up by avatar.get(key, '').             *)

NameOf(a) ==
    CASE a % 4 = 0 -> "Cat" [] a % 4 = 1 -> "dog" [] a % 4 = 2 -> "" [] OTHER -> "Fox"
AuthorOf(a) ==
    CASE a % 4 = 0 -> "bob" [] a % 4 = 1 -> "Al" [] a % 4 = 2 -> "" [] OTHER -> "Al"
DescriptionOf(a) ==
    CASE a % 4 = 0 -> "" [] a % 4 = 1 -> "a cat" [] a % 4 = 2 -> "" [] OTHER -> "x"

(* The page the listing endpoint answers at `offset` when it sends n records. *)
ServerPage(offset, n) == [i \in 1..n |-> offset + i]

----------------------------------------------------------------------------
(* Worker (src/SMP.py 86-118) and the task functions.  A task's record holds  *)
(* the locals of its function; offsets and answers are the history of its     *)
(* HTTP requests (the offset asked, the status and record count answered),    *)
(* opened and written what a download did to its destination file (the sizes  *)
(* of the chunks written), progress the percents it passed to progress.emit,  *)
(* emitted the signals its Worker has emitted, after_failure whether a task   *)
(* had already ended in an exception when this one was started.               *)

NoOut == [kind |-> "none", val |-> <<>>]

Worker(fn, arg) ==
    [fn |-> fn, pc |-> "queued", arg |-> arg, cookies |-> 0,
     page |-> 0, offset |-> 0, offsets |-> <<>>, answers |-> <<>>,
     all_avatars |-> <<>>,
     total_size |-> 0, downloaded |-> 0, chunks |-> <<>>,
     opened |-> FALSE, written |-> <<>>, progress |-> <<>>,
     out |-> NoOut, emitted |-> <<>>, after_failure |-> FALSE]

TaskIds == 1..Len(tasks)

(* The model stops starting Workers of a kind at that kind's bound. *)
Limit(fn) ==
    CASE fn = "login" -> MaxLogins [] fn = "verify" -> MaxVerifies
      [] fn = "fetch" -> MaxFetches [] fn = "detail" -> MaxDetails
      [] OTHER -> MaxDownloads

CanStart(fn) == Cardinality({t \in TaskIds : tasks[t].fn = fn}) < Limit(fn)

(* threadpool.start(worker): the new Worker's id is its place in tasks. *)
Started(fn, arg) ==
    Append(tasks, [Worker(fn, arg) EXCEPT !.after_failure =
                       \E t \in TaskIds : tasks[t].pc = "finished" /\ tasks[t].out.kind = "raise"])

Returned(tk, val) == [tk EXCEPT !.pc = "returned", !.out = [kind |-> "return", val |-> val]]
Raised(tk, msg)   == [tk EXCEPT !.pc = "raised", !.out = [kind |-> "raise", val |-> msg]]

(* A response of the listing endpoint: status 0 stands for requests.get       *)
(* raising (a transport failure), n is the number of records of the body.     *)
ConnectionFailed == 0

(* Variants of the loop body that the claims below must tell apart from the   *)
(* source's: one that goes on after a short page, one that keeps what it      *)
(* collected when a page request fails.                                       *)
FetchIterationEmptyOnly(tk, status, n) ==
    LET asked == [tk EXCEPT !.offsets = Append(@, tk.offset),
                            !.answers = Append(@, [status |-> status, n |-> n])]
        all == tk.all_avatars \o ServerPage(tk.offset, n)
    IN  IF status # HttpOk THEN Raised(asked, "API error")
        ELSE IF n = 0 THEN Returned(asked, tk.all_avatars)
        ELSE IF tk.page + 1 = max_pages
             THEN Returned([asked EXCEPT !.all_avatars = all, !.offset = @ + page_size,
                                         !.page = @ + 1], all)
        ELSE [asked EXCEPT !.all_avatars = all, !.offset = @ + page_size, !.page = @ + 1]

FetchIterationKeepsPartial(tk, status, n) ==
    LET asked == [tk EXCEPT !.offsets = Append(@, tk.offset),
                            !.answers = Append(@, [status |-> status, n |-> n])]
        all == tk.all_avatars \o ServerPage(tk.offset, n)
    IN  IF status # HttpOk THEN Returned(asked, tk.all_avatars)
        ELSE IF n < page_size THEN Returned([asked EXCEPT !.all_avatars = all], all)
        ELSE IF tk.page + 1 = max_pages
             THEN Returned([asked EXCEPT !.all_avatars = all, !.offset = @ + page_size,
                                         !.page = @ + 1], all)
        ELSE [asked EXCEPT !.all_avatars = all, !.offset = @ + page_size, !.page = @ + 1]

(* A loop body that keeps the last page in place of the collection. *)
FetchIterationLastPageOnly(tk, status, n) ==
    LET asked == [tk EXCEPT !.offsets = Append(@, tk.offset),
                            !.answers = Append(@, [status |-> status, n |-> n])]
        avatars == ServerPage(tk.offset, n)
    IN  IF status = ConnectionFailed THEN Raised(asked, "connection failed")
        ELSE IF status # HttpOk THEN Raised(asked, "API error: " \o ToString(status))
        ELSE IF n = 0 THEN Returned(asked, tk.all_avatars)
        ELSE IF n < page_size THEN Returned([asked EXCEPT !.all_avatars = avatars], avatars)
        ELSE IF tk.page + 1 = max_pages
             THEN Returned([asked EXCEPT !.all_avatars = avatars,
                                         !.offset = @ + page_size, !.page = @ + 1], avatars)
        ELSE [asked EXCEPT !.all_avatars = avatars, !.offset = @ + page_size, !.page = @ + 1]

(* fetch_avatars_worker, one iteration of `for page in range(max_pages)`.     *)
FetchIteration(tk, status, n) ==
    LET asked == [tk EXCEPT !.offsets = Append(@, tk.offset),
                            !.answers = Append(@, [status |-> status, n |-> n])]
        avatars == ServerPage(tk.offset, n)
        all == tk.all_avatars \o avatars
    IN  IF status = ConnectionFailed THEN Raised(asked, "connection failed")
        ELSE IF status # HttpOk THEN Raised(asked, "API error: " \o ToString(status))
        ELSE IF n = 0 THEN Returned(asked, tk.all_avatars)
        ELSE IF n < page_size THEN Returned([asked EXCEPT !.all_avatars = all], all)
        ELSE IF tk.page + 1 = max_pages
             THEN Returned([asked EXCEPT !.all_avatars = all,
                                         !.offset = @ + page_size, !.page = @ + 1], all)
        ELSE [asked EXCEPT !.all_avatars = all, !.offset = @ + page_size, !.page = @ + 1]

(* A Worker.run without the finally clause on the error path. *)
RunSignalsNoFinally(tk) ==
    IF tk.pc = "returned" THEN <<"result", "finished">> ELSE <<"error">>

(* Worker.run 105-118: the signals emitted once fn has returned or raised. *)
RunSignals(tk) ==
    IF tk.pc = "returned" THEN <<"result", "finished">> ELSE <<"error", "finished">>

----------------------------------------------------------------------------
(* PaginationWidget (src/SMP.py 689-815).                                     *)

(* update_ui: the navigation buttons follow the widget's page state. *)
update_ui(pg) ==
    [pg EXCEPT !.prev_enabled = (pg.current_page > 1),
               !.next_enabled = (pg.current_page < pg.total_pages)]

(* A set_page_count that rounds the page count down. *)
set_page_count_floor(pg, total_items) ==
    LET total == Max(1, total_items \div pg.items_per_page)
    IN  update_ui([pg EXCEPT !.total_pages = total,
                             !.current_page = Min(pg.current_page, total)])

(* set_page_count 779-782 *)
set_page_count(pg, total_items) ==
    LET total == Max(1, (total_items + pg.items_per_page - 1) \div pg.items_per_page)
    IN  update_ui([pg EXCEPT !.total_pages = total,
                             !.current_page = Min(pg.current_page, total)])

(* The page sizes of items_map (806). *)
PageSizes == {10, 25, 50, 100}

(* items_map.get(index, 50) of change_items_per_page *)
items_map(index) ==
    CASE index = 0 -> 10 [] index = 1 -> 25 [] index = 2 -> 50 [] index = 3 -> 100
      [] OTHER -> 50

----------------------------------------------------------------------------
(* The manager's view state, as one record the handlers transform.            *)

View ==
    [avatars_data |-> avatars_data, filtered_avatars |-> filtered_avatars,
     current_page |-> current_page, items_per_page |-> items_per_page,
     pagination |-> pagination]

SetView(v) ==
    /\ avatars_data' = v.avatars_data
    /\ filtered_avatars' = v.filtered_avatars
    /\ current_page' = v.current_page
    /\ items_per_page' = v.items_per_page
    /\ pagination' = v.pagination

(* A test with the operands of `in` exchanged. *)
MatchesSwapped(filter_text, a) ==
    \/ Contains(Lower(NameOf(a)), filter_text)
    \/ Contains(Lower(AuthorOf(a)), filter_text)
    \/ Contains(Lower(DescriptionOf(a)), filter_text)

(* The test of filter_avatars for one record; filter_text is already lowered. *)
Matches(filter_text, a) ==
    \/ Contains(filter_text, Lower(NameOf(a)))
    \/ Contains(filter_text, Lower(AuthorOf(a)))
    \/ Contains(filter_text, Lower(DescriptionOf(a)))

(* A filter_avatars that keeps the selected page. *)
filter_avatars_keeps_page(v, text) ==
    LET filter_text == Lower(text)
        hit == [k \in 0..3 |-> Matches(filter_text, k)]
        filtered == IF filter_text # ""
                    THEN SelectSeq(v.avatars_data, LAMBDA a : hit[a % 4])
                    ELSE v.avatars_data
    IN  [v EXCEPT !.filtered_avatars = filtered,
                  !.pagination = set_page_count(@, Len(filtered))]

(* filter_avatars up to its call of display_current_page (2062-2088). *)
filter_avatars(v, text) ==
    LET filter_text == Lower(text)
        hit == [k \in 0..3 |-> Matches(filter_text, k)]
        filtered == IF filter_text # ""
                    THEN SelectSeq(v.avatars_data, LAMBDA a : hit[a % 4])
                    ELSE v.avatars_data
        reset == update_ui([v.pagination EXCEPT !.current_page = 1])
    IN  [v EXCEPT !.filtered_avatars = filtered,
                  !.current_page = 1,
                  !.pagination = set_page_count(reset, Len(filtered))]

(* A change_page that leaves the manager's page size alone. *)
change_page_keeps_size(v, page_num) ==
    [v EXCEPT !.current_page = page_num,
              !.pagination = IF v.filtered_avatars # <<>>
                             THEN set_page_count(@, Len(v.filtered_avatars))
                             ELSE @]

(* change_page up to its call of display_current_page (2094-2102). *)
change_page(v, page_num) ==
    [v EXCEPT !.current_page = page_num,
              !.items_per_page = v.pagination.items_per_page,
              !.pagination = IF v.filtered_avatars # <<>>
                             THEN set_page_count(@, Len(v.filtered_avatars))
                             ELSE @]

(* A handle_avatars_result that stores the list and leaves the filter as it  *)
(* was.                                                                       *)
handle_avatars_result_keeps_filter(v, avatars, text) ==
    LET pg == set_page_count(v.pagination, Len(avatars))
    IN  [v EXCEPT !.avatars_data = avatars,
                  !.current_page = 1,
                  !.pagination = update_ui([pg EXCEPT !.current_page = 1]),
                  !.items_per_page = pg.items_per_page]

(* handle_avatars_result up to display_current_page (2495-2508). *)
handle_avatars_result(v, avatars, text) ==
    LET pg == set_page_count(v.pagination, Len(avatars))
    IN  filter_avatars([v EXCEPT !.avatars_data = avatars,
                                 !.pagination = pg,
                                 !.items_per_page = pg.items_per_page], text)

(* fetch_avatars: the pagination reset before the Worker is started (1937-1940). *)
fetch_avatars_reset(v) ==
    [v EXCEPT !.current_page = 1,
              !.pagination = update_ui([@ EXCEPT !.current_page = 1])]

(* A slice that starts one page too far. *)
PageSliceFromPage(filtered, page, per_page) ==
    LET start_idx == page * per_page
        end_idx == Min(start_idx + per_page, Len(filtered))
    IN  SubSeq(filtered, start_idx + 1, end_idx)

(* The slice display_current_page and refresh_avatar_panels show for `page`. *)
PageSlice(filtered, page, per_page) ==
    LET start_idx == (page - 1) * per_page
        end_idx == Min(start_idx + per_page, Len(filtered))
    IN  SubSeq(filtered, start_idx + 1, end_idx)

----------------------------------------------------------------------------
(* login_worker (1743-1804): the dict it returns for one answer of the        *)
(* identity endpoint.  resp.kind is "ok" (get_current_user returned),         *)
(* "unauthorized" (UnauthorizedException with status and reason),             *)
(* "api_exception" or "exception"; session is the ApiClient it created.       *)

LoginFailure(error) ==
    [success |-> FALSE, need_2fa |-> FALSE, is_email |-> FALSE, api_client |-> 0,
     error |-> error]

LoginNeed2fa(is_email, session) ==
    [success |-> FALSE, need_2fa |-> TRUE, is_email |-> is_email,
     api_client |-> session, error |-> ""]

(* A variant that tests the shorter reason first. *)
login_worker_generic_first(resp, session) ==
    IF resp.kind = "ok"
    THEN [success |-> TRUE, need_2fa |-> FALSE, is_email |-> FALSE,
          api_client |-> session, error |-> ""]
    ELSE IF resp.kind = "unauthorized"
    THEN IF resp.status = HttpOk /\ Contains("2 Factor Authentication", resp.reason)
         THEN LoginNeed2fa(FALSE, session)
         ELSE IF resp.status = HttpOk /\ Contains("Email 2 Factor Authentication", resp.reason)
         THEN LoginNeed2fa(TRUE, session)
         ELSE LoginFailure(resp.reason)
    ELSE LoginFailure(resp.reason)

(* login_worker 1743-1804 on the answer resp of get_current_user(). *)
login_worker(resp, session) ==
    IF resp.kind = "ok"
    THEN [success |-> TRUE, need_2fa |-> FALSE, is_email |-> FALSE,
          api_client |-> session, error |-> ""]
    ELSE IF resp.kind = "unauthorized"
    THEN IF resp.status = HttpOk /\ Contains("Email 2 Factor Authentication", resp.reason)
         THEN LoginNeed2fa(TRUE, session)
         ELSE IF resp.status = HttpOk /\ Contains("2 Factor Authentication", resp.reason)
         THEN LoginNeed2fa(FALSE, session)
         ELSE LoginFailure(resp.reason)
    ELSE LoginFailure(resp.reason)

(* The answers of the identity endpoint the model draws from. *)
Reasons ==
    {"Email 2 Factor Authentication", "2 Factor Authentication",
     "Requires Email 2 Factor Authentication code", "Missing Credentials",
     "2 factor authentication"}

LoginResponses ==
    {[kind |-> "ok", status |-> HttpOk, reason |-> ""],
     [kind |-> "api_exception", status |-> 500, reason |-> "(500) Server Error"]}
    \cup [kind : {"unauthorized"}, status : {HttpOk, 401}, reason : Reasons]

(* verify_2fa_worker (1872-1896): "ok", "api_exception" (returned as a        *)
(* failure dict) or "exception" (anything else: it leaves the function).      *)
VerifyAnswers == {"ok", "api_exception", "exception"}

----------------------------------------------------------------------------
(* The GUI thread's stack of suspended handlers.                              *)

(* A suspended call: k is where it waits (a dialog's exec() or a              *)
(* processEvents() of clear_avatar_grid), who the function that called        *)
(* clear_avatar_grid, the rest its locals.                                    *)
Frame(k) ==
    [k |-> k, who |-> "", page |-> 0, then_timer |-> FALSE,
     session |-> 0, is_email |-> FALSE, url |-> "", filename |-> ""]

Dialogs == {"LoginDialog", "TwoFactorDialog", "QFileDialog"}

Top == stack[Len(stack)]
Pop == SubSeq(stack, 1, Len(stack) - 1)
CanPush == Len(stack) < MaxDepth

(* A modal dialog anywhere on the stack blocks input to the main window. *)
NoModal == \A i \in 1..Len(stack) : stack[i].k \notin Dialogs

(* display_current_page() begins with clear_avatar_grid(), whose first        *)
(* statement is processEvents(): the caller is suspended there.               *)
DisplayFrame(then_timer) ==
    [Frame("processEvents1") EXCEPT !.who = "display_current_page",
                                    !.then_timer = then_timer]

AddTimer(name) == [timers EXCEPT ![name] = @ + 1]
TakeTimer(name) == [timers EXCEPT ![name] = @ - 1]

----------------------------------------------------------------------------
(* Download URL resolution and the download worker's arithmetic.              *)

SecuritySuffix == "/variant/security"

(* s.split(sep)[0]: s up to the first occurrence of sep, s itself if none. *)
RECURSIVE SplitHead(_, _)
SplitHead(s, sep) ==
    IF Len(s) < Len(sep) THEN s
    ELSE IF SubSeq(s, 1, Len(sep)) = sep THEN ""
    ELSE SubSeq(s, 1, 1) \o SplitHead(SubSeq(s, 2, Len(s)), sep)

(* str.strip() for the blanks a line edit can hold. *)
RECURSIVE Strip(_)
Strip(s) ==
    IF s = "" THEN s
    ELSE IF SubSeq(s, 1, 1) = " " THEN Strip(SubSeq(s, 2, Len(s)))
    ELSE IF SubSeq(s, Len(s), Len(s)) = " " THEN Strip(SubSeq(s, 1, Len(s) - 1))
    ELSE s

(* A fix that cuts at the last path segment only. *)
FixUrlLastSegment(url) ==
    IF Contains(SecuritySuffix, url) THEN SplitHead(url, "/security") ELSE url

(* The URL fix of continue_avatar_download 2409-2412 and download_file_worker *)
(* 2573-2576.                                                                 *)
FixUrl(url) == IF Contains(SecuritySuffix, url) THEN SplitHead(url, SecuritySuffix) ELSE url

(* The characters of the class in the pattern of re.sub (2415).               *)
InvalidChars == {"\\", "/", ":", "*", "?", "\"", "<", ">", "|"}

(* A class without the backslash. *)
RECURSIVE safe_name_keeps_backslash(_)
safe_name_keeps_backslash(name) ==
    IF name = "" THEN ""
    ELSE (IF SubSeq(name, 1, 1) \in InvalidChars \ {"\\"} THEN "_" ELSE SubSeq(name, 1, 1))
         \o safe_name_keeps_backslash(SubSeq(name, 2, Len(name)))

(* safe_name = re.sub(class, '_', name) (2415): the matches of a class of     *)
(* single characters are the characters of the class, each replaced by '_'.   *)
RECURSIVE safe_name(_)
safe_name(name) ==
    IF name = "" THEN ""
    ELSE (IF SubSeq(name, 1, 1) \in InvalidChars THEN "_" ELSE SubSeq(name, 1, 1))
         \o safe_name(SubSeq(name, 2, Len(name)))

file_ext == ".vrca"

(* continue_avatar_download 2358-2397: "" stands for download_url = None; a   *)
(* package's assetUrl is "" when the key is missing or its value is empty.    *)
ResolveDownloadUrl(avatar) ==
    LET packages == avatar.unityPackages
        windows_packages == SelectSeq(packages, LAMBDA pkg : pkg.platform = "standalonewindows")
        first == IF windows_packages # <<>> /\ windows_packages[1].assetUrl # ""
                 THEN windows_packages[1].assetUrl ELSE ""
        with_url == SelectSeq(packages, LAMBDA pkg : pkg.assetUrl # "")
        second == IF first = "" /\ with_url # <<>> THEN with_url[1].assetUrl ELSE first
    IN  IF second = "" /\ avatar.assetUrl # "" THEN avatar.assetUrl ELSE second

(* The detail endpoint's records the model draws from. *)
Pkg(platform, assetUrl) == [platform |-> platform, assetUrl |-> assetUrl]
DetailRecords ==
    {[name |-> "My/Avatar:Test*", assetUrl |-> "",
      unityPackages |-> <<Pkg("android", "a"), Pkg("standalonewindows", "w/variant/security")>>],
     [name |-> "a\\b?\"<c>|", assetUrl |-> "t", unityPackages |-> <<>>],
     [name |-> "plain", assetUrl |-> "", unityPackages |-> <<Pkg("android", "")>>],
     [name |-> "My_Avatar_Test_", assetUrl |-> "t",
      unityPackages |-> <<Pkg("standalonewindows", ""), Pkg("android", "a"),
                          Pkg("standalonewindows", "w")>>]}

(* What fetch_detailed_avatar returns: the record, or None. *)
Detail(record) == [found |-> TRUE, data |-> record]
NoDetail == [found |-> FALSE, data |-> <<>>]

chunk_size == 8192   \* response.iter_content(chunk_size=8192)

(* percent = int(downloaded * 100 / total_size) *)
Percent(downloaded, total_size) == (downloaded * 100) \div total_size

----------------------------------------------------------------------------
(* The pool's threads.  Every task function runs in steps between which the   *)
(* GUI thread and the other tasks may run.                                    *)

Queue(t, sigs, val) ==
    LET heard == SelectSeq(sigs, LAMBDA g : g \in {"result", "error"})
    IN  mainq \o [i \in 1..Len(heard) |-> [sig |-> heard[i], task |-> t, val |-> val]]

(* fetch_avatars_worker 1961-1975: the cookies and the user agent are read    *)
(* from self.api_client when the task starts to run.                          *)
FetchStart(t) ==
    /\ tasks[t].fn = "fetch" /\ tasks[t].pc = "queued"
    /\ tasks' = [tasks EXCEPT ![t].pc = "running", ![t].cookies = api_client]
    /\ UNCHANGED <<authVars, mainq, stack, timers, viewVars, dlVars>>

FetchResponses(lens) ==
    [status : {HttpOk}, n : lens] \cup [status : {ConnectionFailed, 500}, n : {0}]

(* One page request of fetch_avatars_worker (1978-2031). *)
FetchPage(t, lens) ==
    /\ tasks[t].fn = "fetch" /\ tasks[t].pc = "running"
    /\ \E r \in FetchResponses(lens) :
          tasks' = [tasks EXCEPT ![t] = FetchIteration(@, r.status, r.n)]
    /\ UNCHANGED <<authVars, mainq, stack, timers, viewVars, dlVars>>

(* login_worker: one call of the identity endpoint with a fresh ApiClient,    *)
(* whose session is named after the task.                                     *)
LoginRun(t) ==
    /\ tasks[t].fn = "login" /\ tasks[t].pc = "queued"
    /\ \E resp \in LoginResponses :
          /\ tasks' = [tasks EXCEPT ![t] = Returned([@ EXCEPT !.arg = resp],
                                                     login_worker(resp, t))]
          /\ authed' = IF resp.kind = "ok" THEN authed \cup {t} ELSE authed
    /\ UNCHANGED <<api_client, temp_api_client, login_btn, mainq, stack, timers,
                   viewVars, dlVars>>

(* verify_2fa_worker 1872-1896 on the auth_api of session tasks[t].arg.session. *)
verify_2fa_worker(tk, answer) ==
    IF answer = "ok"
    THEN Returned(tk, [success |-> TRUE, error |-> ""])
    ELSE IF answer = "api_exception"
    THEN Returned(tk, [success |-> FALSE, error |-> "(400) Bad Request"])
    ELSE Raised(tk, "Invalid value for code")

VerifyRun(t) ==
    /\ tasks[t].fn = "verify" /\ tasks[t].pc = "queued"
    /\ \E answer \in VerifyAnswers :
          /\ tasks' = [tasks EXCEPT ![t] = verify_2fa_worker(@, answer)]
          /\ authed' = IF answer = "ok" THEN authed \cup {tasks[t].arg.session} ELSE authed
    /\ UNCHANGED <<api_client, temp_api_client, login_btn, mainq, stack, timers,
                   viewVars, dlVars>>

(* fetch_detailed_avatar 2443-2482: None when not logged in, on a status      *)
(* other than 200 and on any exception of the request.                        *)
DetailStart(t) ==
    /\ tasks[t].fn = "detail" /\ tasks[t].pc = "queued"
    /\ tasks' = [tasks EXCEPT ![t] = IF api_client = 0 THEN Returned(@, NoDetail)
                                     ELSE [@ EXCEPT !.pc = "running",
                                                    !.cookies = api_client]]
    /\ UNCHANGED <<authVars, mainq, stack, timers, viewVars, dlVars>>

(* What the detail endpoint answers: a record with status 200, or a failure   *)
(* (a status other than 200, or requests.get raising).                        *)
DetailAnswers ==
    {[status |-> HttpOk, val |-> Detail(d)] : d \in DetailRecords}
    \cup {[status |-> st, val |-> NoDetail] : st \in {ConnectionFailed, 404}}

DetailRun(t) ==
    /\ tasks[t].fn = "detail" /\ tasks[t].pc = "running"
    /\ \E r \in DetailAnswers :
          tasks' = [tasks EXCEPT ![t] = Returned([@ EXCEPT !.offsets = <<0>>,
                                                          !.answers = <<r>>], r.val)]
    /\ UNCHANGED <<authVars, mainq, stack, timers, viewVars, dlVars>>

(* download_file_worker 2573-2591: the URL fix, then cookies and user agent;  *)
(* without a session self.api_client.user_agent raises (2588).                *)
DownloadStart(t) ==
    /\ tasks[t].fn = "download" /\ tasks[t].pc = "queued"
    /\ tasks' = [tasks EXCEPT ![t] =
                    LET fixed == [@ EXCEPT !.arg.url = FixUrl(@)]
                    IN  IF api_client = 0
                        THEN Raised(fixed, "'NoneType' object has no attribute 'user_agent'")
                        ELSE [fixed EXCEPT !.pc = "running", !.cookies = api_client]]
    /\ UNCHANGED <<authVars, mainq, stack, timers, viewVars, dlVars>>

(* 2595-2612: the GET (offsets records the URL it is issued to) and its       *)
(* answer: a status, the content-length header (0 when absent) and the chunks *)
(* iter_content will yield, by their sizes.                                   *)
RECURSIVE SeqSum(_)
SeqSum(q) ==
    IF q = <<>> THEN 0
    ELSE IF Len(q) = 1 THEN q[1]
    ELSE LET half == Len(q) \div 2
         IN  SeqSum(SubSeq(q, 1, half)) + SeqSum(SubSeq(q, half + 1, Len(q)))

DownloadAnswers(bodies) ==
    {[status |-> HttpOk, total_size |-> IF known THEN SeqSum(b) ELSE 0, chunks |-> b] :
        b \in bodies, known \in BOOLEAN}
    \cup [status : {ConnectionFailed, 206, 403}, total_size : {0}, chunks : {<<>>}]

DownloadSuccess(path) == [success |-> TRUE, path |-> path]

(* A worker that measures the body when the header is missing. *)
ContentLengthMeasured(r) == IF r.total_size = 0 THEN SeqSum(r.chunks) ELSE r.total_size

(* total_size = int(response.headers.get('content-length', 0)) (2610) *)
ContentLength(r) == r.total_size

(* A worker that saves whatever body it is answered. *)
download_response_any_status(tk, r) ==
    LET sent == [tk EXCEPT !.offsets = <<tk.arg.url>>, !.answers = <<r>>]
        file == [sent EXCEPT !.total_size = ContentLength(r), !.opened = TRUE]
    IN  IF r.status = ConnectionFailed THEN Raised(sent, "connection failed")
        ELSE IF r.chunks = <<>> THEN Returned(file, DownloadSuccess(tk.arg.path))
        ELSE [file EXCEPT !.pc = "streaming", !.chunks = r.chunks]

(* download_file_worker 2595-2615 on the answer r of requests.get. *)
download_response(tk, r) ==
    LET sent == [tk EXCEPT !.offsets = <<tk.arg.url>>, !.answers = <<r>>]
        file == [sent EXCEPT !.total_size = ContentLength(r), !.opened = TRUE]
    IN  IF r.status = ConnectionFailed THEN Raised(sent, "connection failed")
        ELSE IF r.status # HttpOk
        THEN Raised(sent, "Download failed with status " \o ToString(r.status))
        ELSE IF r.chunks = <<>> THEN Returned(file, DownloadSuccess(tk.arg.path))
        ELSE [file EXCEPT !.pc = "streaming", !.chunks = r.chunks]

DownloadRespond(t, bodies) ==
    /\ tasks[t].fn = "download" /\ tasks[t].pc = "running"
    /\ \E r \in DownloadAnswers(bodies) :
          tasks' = [tasks EXCEPT ![t] = download_response(@, r)]
    /\ UNCHANGED <<authVars, mainq, stack, timers, viewVars, dlVars>>

(* The Worker whose signals object a download task emits its progress on:    *)
(* download_file_worker 2627 reads self.worker at the time of the emit.       *)
ProgressEmitter(t) == worker

(* 2617-2630: one chunk of the body: `if chunk:` skips an empty one, the      *)
(* others are written and counted, and with a known total size the percent    *)
(* is emitted when percent % 1 == 0; the return follows the last chunk.       *)
DownloadChunk(t) ==
    /\ tasks[t].fn = "download" /\ tasks[t].pc = "streaming"
    /\ LET tk == tasks[t]
           chunk == Head(tk.chunks)
           downloaded == tk.downloaded + chunk
           percent == Percent(downloaded, tk.total_size)
           emits == chunk > 0 /\ tk.total_size > 0 /\ percent % 1 = 0
           left == [tk EXCEPT !.downloaded = downloaded, !.chunks = Tail(@),
                              !.written = IF chunk > 0 THEN Append(@, chunk) ELSE @,
                              !.progress = IF emits THEN Append(@, percent) ELSE @]
       IN  /\ tasks' = [tasks EXCEPT ![t] = IF left.chunks = <<>>
                                            THEN Returned(left, DownloadSuccess(tk.arg.path))
                                            ELSE left]
           /\ mainq' = IF emits
                       THEN Append(mainq, [sig |-> "progress", task |-> ProgressEmitter(t),
                                           val |-> percent])
                       ELSE mainq
           /\ progress_log' = IF emits THEN progress_log \cup {<<t, ProgressEmitter(t)>>}
                              ELSE progress_log
    /\ UNCHANGED <<authVars, stack, timers, viewVars, download_btn, worker, file_url_input>>

(* 2617: iter_content raises when the connection breaks inside the body. *)
DownloadBreak(t) ==
    /\ tasks[t].fn = "download" /\ tasks[t].pc = "streaming"
    /\ tasks' = [tasks EXCEPT ![t] = Raised(@, "Connection broken")]
    /\ UNCHANGED <<authVars, mainq, stack, timers, viewVars, dlVars>>

(* Worker.run 105-118 once fn has returned or raised. *)
WorkerEmit(t) ==
    /\ tasks[t].pc \in {"returned", "raised"}
    /\ tasks' = [tasks EXCEPT ![t].pc = "finished",
                              ![t].emitted = @ \o RunSignals(tasks[t])]
    /\ mainq' = Queue(t, RunSignals(tasks[t]), tasks[t].out.val)
    /\ UNCHANGED <<authVars, stack, timers, viewVars, dlVars>>

----------------------------------------------------------------------------
(* The GUI thread: handlers of queued signals, timers and user input.         *)

HeadIs(sig, fns) ==
    /\ mainq # <<>>
    /\ Head(mainq).sig = sig
    /\ tasks[Head(mainq).task].fn \in fns

(* fetch_avatars 1932-1955 with self.api_client = client. *)
fetch_avatars(client) ==
    IF client = 0
    THEN UNCHANGED <<tasks, avatars_data, filtered_avatars, current_page,
                     items_per_page, pagination>>
    ELSE /\ CanStart("fetch")
         /\ SetView(fetch_avatars_reset(View))
         /\ tasks' = Started("fetch", "all")

(* refresh_btn.clicked -> fetch_avatars *)
ClickRefresh ==
    /\ NoModal
    /\ fetch_avatars(api_client)
    /\ UNCHANGED <<authVars, mainq, stack, timers, search_input, avatar_grid, dlVars>>

(* The session handle_login_result leaves in self.api_client (1811-1813). *)
InstalledByLogin(result, current) ==
    IF result.success THEN result.api_client ELSE current

(* login_btn.clicked -> login_to_vrchat: the LoginDialog opens (1715-1716). *)
ClickLogin ==
    /\ NoModal /\ login_btn /\ CanPush
    /\ stack' = Append(stack, Frame("LoginDialog"))
    /\ UNCHANGED <<authVars, poolVars, timers, viewVars, dlVars>>

(* QTimer.singleShot(500, check_login_status) with saved credentials. *)
CheckLoginStatus ==
    /\ timers.check_login > 0 /\ CanPush
    /\ timers' = TakeTimer("check_login")
    /\ stack' = Append(stack, Frame("LoginDialog"))
    /\ UNCHANGED <<authVars, poolVars, viewVars, dlVars>>

(* login_to_vrchat after login_dialog.exec() returned true (1717-1741). *)
LoginAccept ==
    /\ stack # <<>> /\ Top.k = "LoginDialog"
    /\ CanStart("login")
    /\ stack' = Pop
    /\ login_btn' = FALSE
    /\ tasks' = Started("login", "credentials")
    /\ UNCHANGED <<api_client, temp_api_client, authed, mainq, timers, viewVars, dlVars>>

LoginReject ==
    /\ stack # <<>> /\ Top.k = "LoginDialog"
    /\ stack' = Pop
    /\ UNCHANGED <<authVars, poolVars, timers, viewVars, dlVars>>

(* handle_login_result 1806-1870, up to twofa_dialog.exec(). *)
HandleLoginResult ==
    /\ HeadIs("result", {"login"})
    /\ LET result == Head(mainq).val
       IN  /\ mainq' = Tail(mainq)
           /\ login_btn' = TRUE
           /\ api_client' = InstalledByLogin(result, api_client)
           /\ IF result.success
              THEN /\ fetch_avatars(api_client')
                   /\ stack' = stack
              ELSE /\ UNCHANGED <<tasks, avatars_data, filtered_avatars, current_page,
                                  items_per_page, pagination>>
                   /\ IF result.need_2fa
                      THEN /\ CanPush
                           /\ stack' = Append(stack,
                                  [Frame("TwoFactorDialog") EXCEPT
                                       !.session = result.api_client,
                                       !.is_email = result.is_email])
                      ELSE stack' = stack
    /\ UNCHANGED <<temp_api_client, authed, timers, search_input, avatar_grid, dlVars>>

(* TwoFactorDialog: what the user types or pastes into the empty code input;  *)
(* setMaxLength(6) keeps the first six characters (970), validate_code_input  *)
(* replaces the text by its digits (1004-1008), get_code returns the text.    *)
TypedCodes == {"12345678", "1a2", ""}

code_max_length == 6

IsDigit(c) == c \in {"0", "1", "2", "3", "4", "5", "6", "7", "8", "9"}

RECURSIVE validate_code_input(_)
validate_code_input(text) ==
    IF text = "" THEN ""
    ELSE (IF IsDigit(SubSeq(text, 1, 1)) THEN SubSeq(text, 1, 1) ELSE "")
         \o validate_code_input(SubSeq(text, 2, Len(text)))

get_code(typed) == validate_code_input(SubSeq(typed, 1, Min(Len(typed), code_max_length)))

(* The codes get_code() can return. *)
Codes == {get_code(typed) : typed \in TypedCodes}

(* handle_login_result after twofa_dialog.exec() returned true (1846-1861). *)
TwoFactorAccept ==
    /\ stack # <<>> /\ Top.k = "TwoFactorDialog"
    /\ CanStart("verify")
    /\ \E code \in Codes :
          tasks' = Started("verify", [session |-> Top.session, code |-> code,
                                      is_email |-> Top.is_email])
    /\ stack' = Pop
    /\ login_btn' = FALSE
    /\ temp_api_client' = Top.session
    /\ UNCHANGED <<api_client, authed, mainq, timers, viewVars, dlVars>>

TwoFactorReject ==
    /\ stack # <<>> /\ Top.k = "TwoFactorDialog"
    /\ stack' = Pop
    /\ UNCHANGED <<authVars, poolVars, timers, viewVars, dlVars>>

(* handle_2fa_result 1898-1923 *)
Handle2faResult ==
    /\ HeadIs("result", {"verify"})
    /\ LET result == Head(mainq).val
       IN  /\ mainq' = Tail(mainq)
           /\ login_btn' = TRUE
           /\ IF result.success
              THEN /\ api_client' = temp_api_client
                   /\ fetch_avatars(api_client')
              ELSE UNCHANGED <<api_client, tasks, avatars_data, filtered_avatars,
                               current_page, items_per_page, pagination>>
    /\ UNCHANGED <<temp_api_client, authed, stack, timers, search_input, avatar_grid,
                   dlVars>>

(* handle_login_error 1925-1930 *)
HandleLoginError ==
    /\ HeadIs("error", {"login", "verify"})
    /\ mainq' = Tail(mainq)
    /\ login_btn' = TRUE
    /\ UNCHANGED <<api_client, temp_api_client, authed, tasks, stack, timers,
                   viewVars, dlVars>>

----------------------------------------------------------------------------
(* The avatar browser: fetch results, search, pagination, the grid.           *)

(* handle_avatars_result 2495-2511: the view update, filter_avatars, and the  *)
(* suspension in display_current_page; the refresh timer is set on return.    *)
HandleAvatarsResult ==
    /\ HeadIs("result", {"fetch"})
    /\ CanPush
    /\ mainq' = Tail(mainq)
    /\ SetView(handle_avatars_result(View, Head(mainq).val, search_input))
    /\ stack' = Append(stack, DisplayFrame(TRUE))
    /\ UNCHANGED <<authVars, tasks, timers, search_input, avatar_grid, dlVars>>

(* handle_avatars_error 2056-2060 *)
HandleAvatarsError ==
    /\ HeadIs("error", {"fetch"})
    /\ mainq' = Tail(mainq)
    /\ UNCHANGED <<authVars, tasks, stack, timers, viewVars, dlVars>>

(* search_input.textChanged -> filter_avatars *)
TypeSearch(text) ==
    /\ NoModal /\ CanPush
    /\ text # search_input
    /\ search_input' = text
    /\ SetView(filter_avatars(View, text))
    /\ stack' = Append(stack, DisplayFrame(FALSE))
    /\ UNCHANGED <<authVars, poolVars, timers, avatar_grid, dlVars>>

(* PaginationWidget.prev_page / next_page: the widget's new state, and        *)
(* whether pageChanged is emitted.                                            *)
prev_page(pg) ==
    IF pg.current_page > 1 THEN update_ui([pg EXCEPT !.current_page = @ - 1]) ELSE pg

next_page(pg) ==
    IF pg.current_page < pg.total_pages
    THEN update_ui([pg EXCEPT !.current_page = @ + 1]) ELSE pg

(* A change_items_per_page that keeps the selected page. *)
change_items_per_page_keeps_page(pg, index) ==
    IF items_map(index) # pg.items_per_page
    THEN [pg EXCEPT !.items_per_page = items_map(index)]
    ELSE pg

(* change_items_per_page 804-815 *)
change_items_per_page(pg, index) ==
    IF items_map(index) # pg.items_per_page
    THEN [pg EXCEPT !.items_per_page = items_map(index), !.current_page = 1]
    ELSE pg

(* pageChanged.emit(current_page) -> change_page, when pg2 differs from the   *)
(* widget's state (otherwise nothing was emitted).                            *)
PageChanged(pg2) ==
    IF pg2 = pagination
    THEN UNCHANGED <<viewVars, stack>>
    ELSE /\ CanPush
         /\ SetView(change_page([View EXCEPT !.pagination = pg2], pg2.current_page))
         /\ stack' = Append(stack, DisplayFrame(FALSE))
         /\ UNCHANGED <<search_input, avatar_grid>>

ClickPrev ==
    /\ NoModal /\ pagination.prev_enabled
    /\ PageChanged(prev_page(pagination))
    /\ UNCHANGED <<authVars, poolVars, timers, dlVars>>

ClickNext ==
    /\ NoModal /\ pagination.next_enabled
    /\ PageChanged(next_page(pagination))
    /\ UNCHANGED <<authVars, poolVars, timers, dlVars>>

SelectItemsPerPage(index) ==
    /\ NoModal
    /\ PageChanged(change_items_per_page(pagination, index))
    /\ UNCHANGED <<authVars, poolVars, timers, dlVars>>

(* clear_avatar_grid 2186-2197: back from the first processEvents(), the grid *)
(* is emptied and the second processEvents() is entered.                      *)
ResumeClear ==
    /\ stack # <<>> /\ Top.k = "processEvents1"
    /\ avatar_grid' = <<>>
    /\ stack' = [stack EXCEPT ![Len(stack)].k = "processEvents2"]
    /\ UNCHANGED <<authVars, poolVars, timers, search_input, avatars_data,
                   filtered_avatars, current_page, items_per_page, pagination, dlVars>>

(* The page whose slice is displayed after clear_avatar_grid returned:        *)
(* display_current_page reads self.current_page then (2164),                  *)
(* refresh_avatar_panels uses the value it read before (2518, 2524).          *)
DisplayedPage(frame) ==
    IF frame.who = "refresh_avatar_panels" THEN frame.page ELSE current_page

(* Back from the second processEvents(): the slice is computed and            *)
(* display_avatars adds its cards; handle_avatars_result then sets its timer. *)
ResumeDisplay ==
    /\ stack # <<>> /\ Top.k = "processEvents2"
    /\ Top.then_timer => timers.refresh < MaxTimers
    /\ avatar_grid' = avatar_grid \o
                      PageSlice(filtered_avatars, DisplayedPage(Top), items_per_page)
    /\ stack' = Pop
    /\ timers' = IF Top.then_timer THEN AddTimer("refresh") ELSE timers
    /\ UNCHANGED <<authVars, poolVars, search_input, avatars_data, filtered_avatars,
                   current_page, items_per_page, pagination, dlVars>>

(* refresh_avatar_panels 2514-2521, fired by a single-shot timer. *)
RefreshAvatarPanels ==
    /\ timers.refresh > 0
    /\ timers' = TakeTimer("refresh")
    /\ IF filtered_avatars # <<>>
       THEN /\ CanPush
            /\ stack' = Append(stack, [Frame("processEvents1") EXCEPT
                                          !.who = "refresh_avatar_panels",
                                          !.page = current_page])
       ELSE stack' = stack
    /\ UNCHANGED <<authVars, poolVars, viewVars, dlVars>>

(* resizeEvent 1189-1192 *)
Resize ==
    /\ NoModal /\ timers.refresh < MaxTimers
    /\ timers' = AddTimer("refresh")
    /\ UNCHANGED <<authVars, poolVars, stack, viewVars, dlVars>>

----------------------------------------------------------------------------
(* Downloads.                                                                 *)

(* AvatarCard.request_download -> download_avatar 2315-2337 for a card of     *)
(* the grid (list records always carry an id).                                *)
ClickCardDownload ==
    /\ NoModal
    /\ CanStart("detail")
    /\ \E i \in 1..Len(avatar_grid) : tasks' = Started("detail", avatar_grid[i])
    /\ UNCHANGED <<authVars, mainq, stack, timers, viewVars, dlVars>>

(* continue_avatar_download 2339-2424, up to QFileDialog.getSaveFileName. *)
ContinueAvatarDownload ==
    /\ HeadIs("result", {"detail"})
    /\ mainq' = Tail(mainq)
    /\ LET detailed == Head(mainq).val
           download_url == IF detailed.found THEN ResolveDownloadUrl(detailed.data) ELSE ""
       IN  IF download_url = ""
           THEN stack' = stack
           ELSE /\ CanPush
                /\ stack' = Append(stack, [Frame("QFileDialog") EXCEPT
                                              !.url = FixUrl(download_url),
                                              !.filename = safe_name(detailed.data.name)
                                                           \o file_ext])
    /\ UNCHANGED <<authVars, tasks, timers, viewVars, dlVars>>

(* 2426-2436: a path was chosen; the form is filled and download_file is      *)
(* scheduled with a single-shot timer.                                        *)
SaveFileAccept ==
    /\ stack # <<>> /\ Top.k = "QFileDialog"
    /\ timers.download < MaxTimers
    /\ stack' = Pop
    /\ file_url_input' = Top.url
    /\ timers' = AddTimer("download")
    /\ UNCHANGED <<authVars, poolVars, viewVars, download_btn, worker, progress_log>>

SaveFileCancel ==
    /\ stack # <<>> /\ Top.k = "QFileDialog"
    /\ stack' = Pop
    /\ UNCHANGED <<authVars, poolVars, timers, viewVars, dlVars>>

(* The user edits the URL field of the File Downloader form. *)
Urls == {"f ", "f/variant/security"}

TypeUrl(url) ==
    /\ NoModal
    /\ url # file_url_input
    /\ file_url_input' = url
    /\ UNCHANGED <<authVars, poolVars, stack, timers, viewVars, download_btn, worker,
                   progress_log>>

(* download_file 2543-2567 *)
download_file ==
    LET file_url == Strip(file_url_input)
    IN  IF api_client = 0 \/ file_url = ""
        THEN UNCHANGED <<tasks, download_btn, worker>>
        ELSE /\ CanStart("download")
             /\ download_btn' = FALSE
             /\ worker' = Len(tasks) + 1
             /\ tasks' = Started("download",
                                 [url |-> file_url, path |-> "out", given |-> file_url])

ClickDownloadFile ==
    /\ NoModal /\ download_btn
    /\ download_file
    /\ UNCHANGED <<authVars, mainq, stack, timers, viewVars, file_url_input, progress_log>>

(* QTimer.singleShot(300, self.download_file) of continue_avatar_download *)
DownloadFileTimer ==
    /\ timers.download > 0
    /\ timers' = TakeTimer("download")
    /\ download_file
    /\ UNCHANGED <<authVars, mainq, stack, viewVars, file_url_input, progress_log>>

(* handle_download_result 2648-2665 and handle_download_error 2670-2679 *)
HandleDownloadResult ==
    /\ HeadIs("result", {"download"})
    /\ mainq' = Tail(mainq)
    /\ download_btn' = TRUE
    /\ UNCHANGED <<authVars, tasks, stack, timers, viewVars, worker, file_url_input,
                   progress_log>>

HandleDownloadError ==
    /\ HeadIs("error", {"download"})
    /\ mainq' = Tail(mainq)
    /\ download_btn' = TRUE
    /\ UNCHANGED <<authVars, tasks, stack, timers, viewVars, worker, file_url_input,
                   progress_log>>

(* update_download_progress 2538-2541 *)
UpdateDownloadProgress ==
    /\ HeadIs("progress", {"download"})
    /\ mainq' = Tail(mainq)
    /\ UNCHANGED <<authVars, tasks, stack, timers, viewVars, dlVars>>

----------------------------------------------------------------------------
(* Initial states.                                                            *)

(* VRChatManager.__init__ 1015-1025 and PaginationWidget.__init__ 692-697,    *)
(* with the window shown and the startup timers of 1506 and 2764 pending.     *)
(* The inputs the specifications draw from. *)
FullLens == {0, 40, page_size}   \* page lengths: empty, short, full
ShortLens == {0, 40}
OverLens == {40, page_size + 1}  \* a short page, and one longer than asked for
Bodies == {<<chunk_size, 1>>}
SearchTexts == {"", "CAT", "AL", "zz"}

InitAuth ==
    /\ api_client = 0
    /\ temp_api_client = 0
    /\ login_btn = TRUE
    /\ authed = {}

NewPagination ==
    [current_page |-> 1, total_pages |-> 1, items_per_page |-> DefaultItemsPerPage,
     prev_enabled |-> FALSE, next_enabled |-> FALSE]

NewView ==
    [avatars_data |-> <<>>, filtered_avatars |-> <<>>, current_page |-> 1,
     items_per_page |-> DefaultItemsPerPage, pagination |-> NewPagination]

InitView ==
    /\ search_input = ""
    /\ avatars_data = NewView.avatars_data
    /\ filtered_avatars = NewView.filtered_avatars
    /\ current_page = NewView.current_page
    /\ items_per_page = NewView.items_per_page
    /\ pagination = NewView.pagination
    /\ avatar_grid = <<>>

SetViewInit(v) ==
    /\ avatars_data = v.avatars_data
    /\ filtered_avatars = v.filtered_avatars
    /\ current_page = v.current_page
    /\ items_per_page = v.items_per_page
    /\ pagination = v.pagination

InitDownload ==
    /\ download_btn = TRUE
    /\ worker = 0
    /\ file_url_input = ""
    /\ progress_log = {}

Init ==
    /\ InitAuth
    /\ tasks = <<>> /\ mainq = <<>> /\ stack = <<>>
    /\ timers = [refresh |-> 1, download |-> 0, check_login |-> 1]
    /\ InitView
    /\ InitDownload

(* The state after a first login has succeeded (handle_login_result 1811-1836 *)
(* has run and the startup timers have fired): session 1 is installed and     *)
(* the automatic fetch is queued.                                             *)
OkAnswer == [kind |-> "ok", status |-> HttpOk, reason |-> ""]

LoginDone ==
    [Returned([Worker("login", "credentials") EXCEPT !.arg = OkAnswer],
              login_worker(OkAnswer, 1))
        EXCEPT !.pc = "finished", !.emitted = <<"result", "finished">>]

InitLoggedIn ==
    /\ api_client = 1
    /\ temp_api_client = 0
    /\ login_btn = TRUE
    /\ authed = {1}
    /\ tasks = <<LoginDone, Worker("fetch", "all")>>
    /\ mainq = <<>> /\ stack = <<>>
    /\ timers = [refresh |-> 0, download |-> 0, check_login |-> 0]
    /\ InitView
    /\ InitDownload

(* The state after that first fetch answered d records, the result was shown  *)
(* and Refresh was clicked: a second fetch is queued while the first result   *)
(* is on display.                                                             *)
FetchDone(d) ==
    [FetchIteration([Worker("fetch", "all") EXCEPT !.pc = "running", !.cookies = 1],
                    HttpOk, d)
        EXCEPT !.pc = "finished", !.emitted = <<"result", "finished">>]

ShownView(d) == handle_avatars_result(NewView, ServerPage(0, d), "")

PriorResult == 60

InitRefreshed ==
    /\ api_client = 1
    /\ temp_api_client = 0
    /\ login_btn = TRUE
    /\ authed = {1}
    /\ tasks = <<LoginDone, FetchDone(PriorResult), Worker("fetch", "all")>>
    /\ mainq = <<>> /\ stack = <<>>
    /\ timers = [refresh |-> 0, download |-> 0, check_login |-> 0]
    /\ search_input = ""
    /\ SetViewInit(fetch_avatars_reset(ShownView(PriorResult)))
    /\ avatar_grid = PageSlice(ShownView(PriorResult).filtered_avatars, 1, DefaultItemsPerPage)
    /\ InitDownload

(* The same a little later: the second fetch has returned d records and its   *)
(* result signal is queued for the main thread.                               *)
Answered(d) ==
    [FetchIteration([Worker("fetch", "all") EXCEPT !.pc = "running", !.cookies = 1],
                    HttpOk, d)
        EXCEPT !.pc = "finished", !.emitted = <<"result", "finished">>]

InitAnswered ==
    /\ api_client = 1
    /\ temp_api_client = 0
    /\ login_btn = TRUE
    /\ authed = {1}
    /\ \E d \in ShortLens :
          /\ tasks = <<LoginDone, FetchDone(PriorResult), Answered(d)>>
          /\ mainq = <<[sig |-> "result", task |-> 3, val |-> ServerPage(0, d)]>>
    /\ stack = <<>>
    /\ timers = [refresh |-> 0, download |-> 0, check_login |-> 0]
    /\ search_input = ""
    /\ SetViewInit(fetch_avatars_reset(ShownView(PriorResult)))
    /\ avatar_grid = PageSlice(ShownView(PriorResult).filtered_avatars, 1, DefaultItemsPerPage)
    /\ InitDownload

(* The state after the first fetch answered a few records and they are on     *)
(* display: nothing is queued, no timer is pending.                           *)
BrowsedResult == 3

InitBrowsing ==
    /\ api_client = 1
    /\ temp_api_client = 0
    /\ login_btn = TRUE
    /\ authed = {1}
    /\ tasks = <<LoginDone, FetchDone(BrowsedResult)>>
    /\ mainq = <<>> /\ stack = <<>>
    /\ timers = [refresh |-> 0, download |-> 0, check_login |-> 0]
    /\ search_input = ""
    /\ SetViewInit(ShownView(BrowsedResult))
    /\ avatar_grid = PageSlice(ShownView(BrowsedResult).filtered_avatars, 1, DefaultItemsPerPage)
    /\ InitDownload

(* The same a little later: Download was clicked on the first card, the       *)
(* detail endpoint has answered, and the result is queued for the main        *)
(* thread.                                                                    *)
DetailAnswered(val) ==
    [Returned([Worker("detail", 1) EXCEPT !.cookies = 1, !.offsets = <<0>>,
                                          !.answers = <<[status |-> HttpOk, val |-> val]>>],
              val)
        EXCEPT !.pc = "finished", !.emitted = <<"result", "finished">>]

InitCardClicked ==
    /\ api_client = 1
    /\ temp_api_client = 0
    /\ login_btn = TRUE
    /\ authed = {1}
    /\ \E d \in DetailRecords :
          /\ tasks = <<LoginDone, FetchDone(BrowsedResult), DetailAnswered(Detail(d))>>
          /\ mainq = <<[sig |-> "result", task |-> 3, val |-> Detail(d)]>>
    /\ stack = <<>>
    /\ timers = [refresh |-> 0, download |-> 0, check_login |-> 0]
    /\ search_input = ""
    /\ SetViewInit(ShownView(BrowsedResult))
    /\ avatar_grid = PageSlice(ShownView(BrowsedResult).filtered_avatars, 1, DefaultItemsPerPage)
    /\ InitDownload

----------------------------------------------------------------------------
(* Specifications.  Spec is the whole program from its start; the others are  *)
(* the same actions restricted to one part of it, from a state it reaches.    *)


Next ==
    \/ \E t \in TaskIds : FetchStart(t)
    \/ \E t \in TaskIds : FetchPage(t, FullLens)
    \/ \E t \in TaskIds : LoginRun(t)
    \/ \E t \in TaskIds : VerifyRun(t)
    \/ \E t \in TaskIds : DetailStart(t)
    \/ \E t \in TaskIds : DetailRun(t)
    \/ \E t \in TaskIds : DownloadStart(t)
    \/ \E t \in TaskIds : DownloadRespond(t, Bodies)
    \/ \E t \in TaskIds : DownloadChunk(t)
    \/ \E t \in TaskIds : DownloadBreak(t)
    \/ \E t \in TaskIds : WorkerEmit(t)
    \/ ClickLogin \/ CheckLoginStatus \/ LoginAccept \/ LoginReject
    \/ HandleLoginResult \/ TwoFactorAccept \/ TwoFactorReject
    \/ Handle2faResult \/ HandleLoginError
    \/ ClickRefresh \/ HandleAvatarsResult \/ HandleAvatarsError
    \/ \E text \in SearchTexts : TypeSearch(text)
    \/ ClickPrev \/ ClickNext
    \/ \E index \in 0..3 : SelectItemsPerPage(index)
    \/ ResumeClear \/ ResumeDisplay \/ RefreshAvatarPanels \/ Resize
    \/ ClickCardDownload \/ ContinueAvatarDownload \/ SaveFileAccept \/ SaveFileCancel
    \/ \E url \in Urls : TypeUrl(url)
    \/ ClickDownloadFile \/ DownloadFileTimer
    \/ HandleDownloadResult \/ HandleDownloadError \/ UpdateDownloadProgress

Spec == Init /\ [][Next]_vars

(* One avatar fetch, page by page, and the handling of what it reports. *)
NextPaging ==
    \/ \E t \in TaskIds : FetchStart(t)
    \/ \E t \in TaskIds : FetchPage(t, FullLens)
    \/ \E t \in TaskIds : WorkerEmit(t)
    \/ HandleAvatarsResult \/ HandleAvatarsError
    \/ ResumeClear \/ ResumeDisplay \/ RefreshAvatarPanels

SpecPaging == (InitLoggedIn \/ InitRefreshed) /\ [][NextPaging]_vars

(* The same with a listing endpoint that may answer more records than asked. *)
NextOverlong ==
    \/ \E t \in TaskIds : FetchStart(t)
    \/ \E t \in TaskIds : FetchPage(t, OverLens)
    \/ \E t \in TaskIds : WorkerEmit(t)
    \/ HandleAvatarsResult \/ HandleAvatarsError
    \/ ResumeClear \/ ResumeDisplay \/ RefreshAvatarPanels

SpecOverlong == InitLoggedIn /\ [][NextOverlong]_vars

(* Logging in: the dialogs, the login and verification tasks, their handlers. *)
NextLogin ==
    \/ ClickLogin \/ CheckLoginStatus \/ LoginAccept \/ LoginReject
    \/ \E t \in TaskIds : LoginRun(t)
    \/ \E t \in TaskIds : VerifyRun(t)
    \/ \E t \in TaskIds : WorkerEmit(t)
    \/ HandleLoginResult \/ TwoFactorAccept \/ TwoFactorReject
    \/ Handle2faResult \/ HandleLoginError

SpecLogin == Init /\ [][NextLogin]_vars

(* Logins one after the other, by the button, every two-factor dialog        *)
(* cancelled: what login_worker makes of the identity endpoint's answers.     *)
NextIdentity ==
    \/ ClickLogin \/ LoginAccept \/ LoginReject
    \/ \E t \in TaskIds : LoginRun(t)
    \/ \E t \in TaskIds : WorkerEmit(t)
    \/ HandleLoginResult \/ TwoFactorReject

SpecIdentity == Init /\ [][NextIdentity]_vars

(* A session in use: refreshes and a further login while fetches run. *)
NextSession ==
    \/ ClickLogin \/ LoginAccept \/ LoginReject
    \/ \E t \in TaskIds : LoginRun(t)
    \/ \E t \in TaskIds : VerifyRun(t)
    \/ HandleLoginResult \/ TwoFactorAccept \/ TwoFactorReject
    \/ Handle2faResult \/ HandleLoginError
    \/ ClickRefresh
    \/ \E t \in TaskIds : FetchStart(t)
    \/ \E t \in TaskIds : FetchPage(t, ShortLens)
    \/ \E t \in TaskIds : WorkerEmit(t)
    \/ HandleAvatarsResult \/ HandleAvatarsError
    \/ ResumeClear \/ ResumeDisplay \/ RefreshAvatarPanels

SpecSession == InitLoggedIn /\ [][NextSession]_vars

(* Downloads, from avatar cards and from the File Downloader form.            *)
NextDownload ==
    \/ ClickCardDownload
    \/ \E t \in TaskIds : DetailStart(t)
    \/ \E t \in TaskIds : DetailRun(t)
    \/ ContinueAvatarDownload \/ SaveFileAccept \/ SaveFileCancel
    \/ \E url \in Urls : TypeUrl(url)
    \/ ClickDownloadFile \/ DownloadFileTimer
    \/ \E t \in TaskIds : DownloadStart(t)
    \/ \E t \in TaskIds : DownloadRespond(t, Bodies)
    \/ \E t \in TaskIds : DownloadChunk(t)
    \/ \E t \in TaskIds : WorkerEmit(t)
    \/ HandleDownloadResult \/ HandleDownloadError \/ UpdateDownloadProgress

SpecDownload == InitBrowsing /\ [][NextDownload]_vars

(* Downloads by their URL alone, one after the other, the first from an       *)
(* avatar card: every answer ends the download at once, and the user waits    *)
(* for the application to be idle before the next click or edit.              *)
NoBody == {<<>>}

Idle ==
    /\ mainq = <<>> /\ stack = <<>> /\ timers.download = 0
    /\ \A t \in TaskIds : tasks[t].pc = "finished"

NextUrls ==
    \/ ContinueAvatarDownload \/ SaveFileAccept \/ SaveFileCancel
    \/ \E url \in Urls : Idle /\ TypeUrl(url)
    \/ Idle /\ ClickDownloadFile
    \/ DownloadFileTimer
    \/ \E t \in TaskIds : DownloadStart(t)
    \/ \E t \in TaskIds : DownloadRespond(t, NoBody)
    \/ \E t \in TaskIds : WorkerEmit(t)
    \/ HandleDownloadResult \/ HandleDownloadError

SpecUrls == InitCardClicked /\ [][NextUrls]_vars

(* Downloads from the File Downloader form, one after the other, the body     *)
(* streamed chunk by chunk (two full chunks and a short last one) unless the  *)
(* connection breaks.                                                         *)
StreamBodies == {<<chunk_size, chunk_size, 5>>}

NextStream ==
    \/ \E url \in Urls : Idle /\ TypeUrl(url)
    \/ Idle /\ ClickDownloadFile
    \/ \E t \in TaskIds : DownloadStart(t)
    \/ \E t \in TaskIds : DownloadRespond(t, StreamBodies)
    \/ \E t \in TaskIds : DownloadChunk(t)
    \/ \E t \in TaskIds : DownloadBreak(t)
    \/ \E t \in TaskIds : WorkerEmit(t)
    \/ HandleDownloadResult \/ HandleDownloadError \/ UpdateDownloadProgress

SpecStream == InitBrowsing /\ [][NextStream]_vars

(* The same for a file of BigChunks full chunks (1 MiB).                      *)
BigChunks == 128
BigBodies == {[i \in 1..BigChunks |-> chunk_size]}

NextBigFile ==
    \/ \E url \in Urls : Idle /\ TypeUrl(url)
    \/ Idle /\ ClickDownloadFile
    \/ \E t \in TaskIds : DownloadStart(t)
    \/ \E t \in TaskIds : DownloadRespond(t, BigBodies)
    \/ \E t \in TaskIds : DownloadChunk(t)
    \/ \E t \in TaskIds : WorkerEmit(t)
    \/ HandleDownloadResult \/ HandleDownloadError \/ UpdateDownloadProgress

SpecBigFile == InitBrowsing /\ [][NextBigFile]_vars

(* The worker pool under refreshes: fetch tasks that return or raise, and     *)
(* Worker.run going on to its emits once the task function has ended.         *)
NextPool ==
    \/ ClickRefresh
    \/ \E t \in TaskIds : FetchStart(t)
    \/ \E t \in TaskIds : FetchPage(t, ShortLens)
    \/ \E t \in TaskIds : WorkerEmit(t)
    \/ HandleAvatarsResult \/ HandleAvatarsError
    \/ ResumeClear \/ ResumeDisplay \/ RefreshAvatarPanels

SpecPool ==
    /\ InitLoggedIn /\ [][NextPool]_vars
    /\ WF_vars(\E t \in TaskIds : WorkerEmit(t))

(* Browsing: search, page size, previous / next, resizes, while a refresh is  *)
(* answered.                                                                  *)
NextView ==
    \/ \E text \in SearchTexts : TypeSearch(text)
    \/ ClickPrev \/ ClickNext
    \/ \E index \in 0..3 : SelectItemsPerPage(index)
    \/ \E t \in TaskIds : FetchStart(t)
    \/ \E t \in TaskIds : FetchPage(t, ShortLens)
    \/ \E t \in TaskIds : WorkerEmit(t)
    \/ HandleAvatarsResult \/ HandleAvatarsError
    \/ ResumeClear \/ ResumeDisplay \/ RefreshAvatarPanels \/ Resize

SpecView == InitRefreshed /\ [][NextView]_vars

(* The page state alone: the user's edits and clicks around the delivery of   *)
(* one fetch result, handlers nested in one another's processEvents().        *)
NextPages ==
    \/ \E text \in SearchTexts : TypeSearch(text)
    \/ ClickPrev \/ ClickNext
    \/ \E index \in 0..3 : SelectItemsPerPage(index)
    \/ HandleAvatarsResult
    \/ ResumeClear \/ ResumeDisplay

SpecPages == InitAnswered /\ [][NextPages]_vars

----------------------------------------------------------------------------
(* Claims.                                                                    *)

FetchTasks == {t \in TaskIds : tasks[t].fn = "fetch"}
Last(q) == q[Len(q)]
LoopLeft(tk) == tk.pc \in {"returned", "finished"} /\ tk.out.kind = "return"

(* C1: a fetch issues at most 10 page requests, at offsets 0, 100, 200, ...   *)
(* (so none twice); it goes on only after pages of at least 100 records and   *)
(* below 10 pages, and when it has returned, its last page had fewer than     *)
(* 100 records or was its tenth.                                              *)
C1_FetchStops ==
    \A t \in FetchTasks :
        LET tk == tasks[t]
            k == Len(tk.offsets)
        IN  /\ k <= max_pages
            /\ \A i \in 1..k : tk.offsets[i] = (i - 1) * page_size
            /\ \A i \in 1..k : \A j \in 1..k : tk.offsets[i] = tk.offsets[j] => i = j
            /\ \A i \in 1..(k - 1) :
                  tk.answers[i].status = HttpOk /\ tk.answers[i].n >= page_size
            /\ tk.pc = "running" =>
                  /\ k < max_pages
                  /\ k > 0 => Last(tk.answers).status = HttpOk /\ Last(tk.answers).n >= page_size
            /\ LoopLeft(tk) => k = max_pages \/ Last(tk.answers).n < page_size

(* A fetch that returned after ten full pages. *)
C1_Witness ==
    \E t \in FetchTasks :
        /\ LoopLeft(tasks[t])
        /\ Len(tasks[t].offsets) = max_pages
        /\ Last(tasks[t].answers).n = page_size

(* C2: a fetch that was answered a status other than 200 asked nothing after  *)
(* that answer and ends as an error: it never returns, reports `error` and    *)
(* never `result`, and what it had collected is not installed; the step that  *)
(* handles its error changes neither the stored records, nor the filtered     *)
(* records, nor the current page.                                             *)
Failed(tk) == \E i \in 1..Len(tk.answers) : tk.answers[i].status # HttpOk

C2_FailedFetch ==
    \A t \in FetchTasks :
        LET tk == tasks[t]
        IN  Failed(tk) =>
              /\ Last(tk.answers).status # HttpOk
              /\ \A i \in 1..(Len(tk.answers) - 1) : tk.answers[i].status = HttpOk
              /\ tk.pc \in {"raised", "finished"}
              /\ tk.out.kind = "raise"
              /\ tk.pc = "finished" => tk.emitted = <<"error", "finished">>
              /\ \A i \in 1..Len(mainq) : mainq[i].task = t => mainq[i].sig = "error"
              /\ tk.all_avatars # <<>> => avatars_data # tk.all_avatars

C2_HandlingKeepsView ==
    (HeadIs("error", {"fetch"}) /\ mainq' = Tail(mainq)) =>
        /\ avatars_data' = avatars_data
        /\ filtered_avatars' = filtered_avatars
        /\ current_page' = current_page
        /\ pagination' = pagination

C2_FetchErrorKeepsList ==
    [][C2_FailedFetch /\ C2_FailedFetch' /\ C2_HandlingKeepsView]_vars

(* A fetch failed on a later page, its error has been handled, and the list   *)
(* is still the one of the refresh before.                                    *)
C2_Witness ==
    \E t \in FetchTasks :
        /\ Failed(tasks[t])
        /\ Len(tasks[t].all_avatars) >= page_size
        /\ tasks[t].pc = "finished"
        /\ \A i \in 1..Len(mainq) : mainq[i].task # t
        /\ Len(avatars_data) = PriorResult

(* C3: the session of a login that answered "two-factor required" is         *)
(* installed as api_client only once the verification for that login has      *)
(* succeeded (authed holds the sessions the server has authenticated: those   *)
(* of successful logins and of successful verifications).                     *)
NeededTwoFactor(session) ==
    /\ session \in TaskIds
    /\ tasks[session].fn = "login"
    /\ tasks[session].out.kind = "return"
    /\ tasks[session].out.val.need_2fa

C3_InstalledOnlyVerified ==
    NeededTwoFactor(api_client) => api_client \in authed

(* C4 as stated: every unauthorized answer of the identity endpoint is        *)
(* routed by its reason alone: "Email 2 Factor Authentication" to the email   *)
(* code, otherwise "2 Factor Authentication" to the authenticator code,       *)
(* otherwise a plain failure carrying the reason.                             *)
LoginTasks == {t \in TaskIds : tasks[t].fn = "login" /\ tasks[t].pc # "queued"}
AsksEmailCode(val) == ~val.success /\ val.need_2fa /\ val.is_email
AsksAuthenticatorCode(val) == ~val.success /\ val.need_2fa /\ ~val.is_email
PlainFailure(val, reason) == ~val.success /\ ~val.need_2fa /\ val.error = reason

C4_RoutedByReason ==
    \A t \in LoginTasks :
        LET resp == tasks[t].arg
            val == tasks[t].out.val
        IN  resp.kind = "unauthorized" =>
              IF Contains("Email 2 Factor Authentication", resp.reason)
              THEN AsksEmailCode(val)
              ELSE IF Contains("2 Factor Authentication", resp.reason)
              THEN AsksAuthenticatorCode(val)
              ELSE PlainFailure(val, resp.reason)

(* C4, amended: the reason routes to a two-factor step only when the          *)
(* unauthorized answer has status 200; with any other status, and with        *)
(* neither text in the reason, the outcome is a plain failure carrying the    *)
(* reason.                                                                    *)
C4_RoutedByReasonAtStatus200 ==
    \A t \in LoginTasks :
        LET resp == tasks[t].arg
            val == tasks[t].out.val
        IN  resp.kind = "unauthorized" =>
              /\ tasks[t].out.kind = "return"
              /\ IF resp.status = HttpOk /\ Contains("Email 2 Factor Authentication", resp.reason)
                 THEN AsksEmailCode(val) /\ val.api_client = t
                 ELSE IF resp.status = HttpOk /\ Contains("2 Factor Authentication", resp.reason)
                 THEN AsksAuthenticatorCode(val) /\ val.api_client = t
                 ELSE PlainFailure(val, resp.reason)

(* One login was answered "unauthorized" with the email text inside a longer  *)
(* reason at status 200, another with the authenticator text at status 401.   *)
C4_Witness ==
    \E t, u \in LoginTasks :
        /\ tasks[t].arg.kind = "unauthorized" /\ tasks[t].arg.status = HttpOk
        /\ tasks[t].arg.reason = "Requires Email 2 Factor Authentication code"
        /\ AsksEmailCode(tasks[t].out.val)
        /\ tasks[u].arg.kind = "unauthorized" /\ tasks[u].arg.status # HttpOk
        /\ tasks[u].arg.reason = "2 Factor Authentication"
        /\ PlainFailure(tasks[u].out.val, "2 Factor Authentication")

(* C5: an established session is never reset to "no session", api_client     *)
(* changes only in the step that handles a successful login or a successful   *)
(* verification, and every request a task issues carries the cookies of the   *)
(* session that is installed when the request is issued.                      *)
HandlesAuthSuccess ==
    /\ HeadIs("result", {"login", "verify"})
    /\ Head(mainq).val.success
    /\ mainq' = Tail(mainq)

IssuesRequest(t) == Len(tasks'[t].offsets) > Len(tasks[t].offsets)

C5_SessionOnEveryRequest ==
    [][/\ api_client # 0 => api_client' # 0
       /\ api_client' # api_client => HandlesAuthSuccess
       /\ \A t \in TaskIds :
             api_client # 0 /\ IssuesRequest(t) => tasks[t].cookies = api_client]_vars

(* C6: once two avatar fetches have both returned and both results have been  *)
(* handled and no handler is running any more, the list held is the result    *)
(* of the one dispatched last (the greater task id), whichever completed      *)
(* first.                                                                     *)
Handled(t) ==
    /\ tasks[t].pc = "finished"
    /\ \A i \in 1..Len(mainq) : mainq[i].task # t

C6_LastDispatchedWins ==
    \A t, u \in FetchTasks :
        (/\ t < u
         /\ stack = <<>>
         /\ \A w \in FetchTasks : w <= u
         /\ tasks[t].out.kind = "return" /\ Handled(t)
         /\ tasks[u].out.kind = "return" /\ Handled(u))
        => avatars_data = tasks[u].out.val

(* C7: tasks share no mutable state: every progress value a download task    *)
(* computed was emitted through that task's own Worker (progress_log pairs    *)
(* the computing task with the emitting Worker), and api_client is not        *)
(* written in a step during which a task that has read it is still running.   *)
ReadsSession(t) ==
    /\ tasks[t].fn \in {"fetch", "detail", "download"}
    /\ tasks[t].pc \in {"running", "streaming"}

C7_SessionNotWrittenUnderReaders ==
    api_client' # api_client => \A t \in TaskIds : ~ReadsSession(t)

C7_OwnProgress == \A p \in progress_log : p[1] = p[2]

C7_TasksShareNothing ==
    [][C7_OwnProgress' /\ C7_SessionNotWrittenUnderReaders]_vars

(* C8: a task that has ended emitted `result` (it returned) or `error` (it    *)
(* raised) and then `finished`, each once; a task that has not ended emitted  *)
(* nothing; the main thread is handed at most one report per task, the error  *)
(* report being the exception's message; a task whose function has returned   *)
(* or raised does get to its emits; all this also for tasks started after     *)
(* another task failed.                                                       *)
Reports(t) == SelectSeq(mainq, LAMBDA e : e.task = t /\ e.sig \in {"result", "error"})

C8_Emitted ==
    \A t \in TaskIds :
        LET tk == tasks[t]
        IN  /\ tk.pc # "finished" => tk.emitted = <<>> /\ Reports(t) = <<>>
            /\ tk.pc = "finished" =>
                  /\ tk.out.kind = "return" => tk.emitted = <<"result", "finished">>
                  /\ tk.out.kind = "raise" => tk.emitted = <<"error", "finished">>
                  /\ tk.out.kind # "none"
                  /\ Len(Reports(t)) <= 1
                  /\ \A i \in 1..Len(Reports(t)) :
                        /\ Reports(t)[i].sig = tk.emitted[1]
                        /\ Reports(t)[i].val = tk.out.val

C8_EmitsOnce ==
    \A t \in TaskIds : tasks'[t].emitted # tasks[t].emitted => tasks[t].emitted = <<>>

PoolTasks == MaxLogins + MaxFetches
PcOf(t) == IF t \in TaskIds THEN tasks[t].pc ELSE "none"

C8_ResultOrErrorThenFinished ==
    /\ []C8_Emitted
    /\ [][C8_EmitsOnce]_vars
    /\ \A t \in 1..PoolTasks :
          (PcOf(t) \in {"returned", "raised"}) ~> (PcOf(t) = "finished")

(* A fetch started after another task had failed has returned and reported    *)
(* its result.                                                                *)
C8_Witness ==
    \E t, u \in FetchTasks :
        /\ tasks[t].pc = "finished" /\ tasks[t].emitted = <<"error", "finished">>
        /\ tasks[u].after_failure
        /\ tasks[u].pc = "finished" /\ tasks[u].emitted = <<"result", "finished">>

(* C9: the current page of the manager and of the pagination widget lies in  *)
(* 1 .. max(1, ceil(len(filtered_avatars) / items_per_page)); with an empty   *)
(* filtered set the state is page 1 of 1.                                     *)
CeilDiv(n, p) == (n + p - 1) \div p
LastPage(per_page) == Max(1, CeilDiv(Len(filtered_avatars), per_page))

C9_PageInRange ==
    /\ current_page \in 1..LastPage(items_per_page)
    /\ pagination.current_page \in 1..LastPage(pagination.items_per_page)
    /\ filtered_avatars = <<>> =>
          /\ current_page = 1
          /\ pagination.current_page = 1
          /\ pagination.total_pages = 1

(* At ten per page the last page of the whole list is selected. *)
C9_Witness ==
    /\ Len(filtered_avatars) = PriorResult
    /\ items_per_page = 10
    /\ current_page = LastPage(10) /\ pagination.current_page = LastPage(10)
    /\ current_page > 2
    /\ ~pagination.next_enabled

(* C10: the step that runs filter_avatars (a search edit, or a fetch result   *)
(* being handled) and the step in which change_items_per_page selects         *)
(* another page size leave page 1 selected in the manager and in the widget.  *)
RunsFilter ==
    \/ search_input' # search_input
    \/ HeadIs("result", {"fetch"}) /\ mainq' = Tail(mainq)

ChangesPageSize == pagination'.items_per_page # pagination.items_per_page

C10_PageOneOnChange ==
    [][RunsFilter \/ ChangesPageSize =>
          current_page' = 1 /\ pagination'.current_page = 1]_vars

(* A handler has just selected page 1 and waits in the first processEvents()  *)
(* of its display, the grid still showing the ten records of a later page:    *)
(* either the page size has been changed to 25, or the search text edited.    *)
ShowsLaterPage ==
    /\ Len(stack) = 1 /\ Top.k = "processEvents1"
    /\ avatar_grid # <<>> /\ avatar_grid[1] > 10
    /\ current_page = 1 /\ pagination.current_page = 1

C10_Witness ==
    /\ ShowsLaterPage
    /\ \/ Len(avatar_grid) = 10 /\ items_per_page = 25 /\ search_input = ""
       \/ search_input = "CAT" /\ Len(filtered_avatars) < Len(avatars_data)

(* C11: set_page_count(n) leaves max(1, ceil(n / p)) as the total page count, *)
(* for every count n up to MaxCount and every page size p of the selector,    *)
(* whatever page was selected before (ceil(n / p) is the k with               *)
(* (k - 1) * p < n <= k * p); and in every state the handlers leave, the      *)
(* widget's total_pages is that value for the filtered records and the page   *)
(* size in force, which the manager and the widget agree on.                  *)
MaxCount == 101

IsCeil(k, n, p) == (k - 1) * p < n /\ n <= k * p

PagesFor(n, p) == IF n = 0 THEN 1 ELSE CHOOSE k \in 1..n : IsCeil(k, n, p)

C11_SetPageCount ==
    \A p \in PageSizes : \A n \in 0..MaxCount :
        LET after == set_page_count([pagination EXCEPT !.items_per_page = p], n)
        IN  IF n = 0 THEN after.total_pages = 1 ELSE IsCeil(after.total_pages, n, p)

C11_TotalPages ==
    /\ C11_SetPageCount
    /\ items_per_page = pagination.items_per_page
    /\ items_per_page \in PageSizes
    /\ pagination.total_pages = PagesFor(Len(filtered_avatars), items_per_page)

(* Every handler has returned; a search leaves 30 of 60 records, shown 25 per *)
(* page on 2 pages.                                                           *)
C11_Witness ==
    /\ stack = <<>>
    /\ search_input = "CAT"
    /\ Len(filtered_avatars) = 30 /\ Len(avatars_data) = PriorResult
    /\ items_per_page = 25
    /\ pagination.total_pages = 2

(* C12: every record of the filtered set, and every card on display once the  *)
(* handlers have returned, is a record of avatars_data and, when the search   *)
(* text is not empty, holds the search text in its name, authorName or        *)
(* description, letter case ignored; with an empty search text the filtered   *)
(* set is avatars_data.                                                       *)
SameLetter(c, d) == LowerChar(c) = LowerChar(d)

HoldsIgnoringCase(text, field) ==
    \E i \in 1..(Len(field) - Len(text) + 1) :
        \A j \in 1..Len(text) :
            SameLetter(SubSeq(text, j, j), SubSeq(field, i + j - 1, i + j - 1))

PassesFilter(text, a) ==
    text # "" =>
        \/ HoldsIgnoringCase(text, NameOf(a))
        \/ HoldsIgnoringCase(text, AuthorOf(a))
        \/ HoldsIgnoringCase(text, DescriptionOf(a))

InResultSet(a) == \E i \in 1..Len(avatars_data) : avatars_data[i] = a

C12_OnlyMatchingShown ==
    LET passes == [k \in 0..3 |-> PassesFilter(search_input, k)]
    IN  /\ \A i \in 1..Len(filtered_avatars) :
              InResultSet(filtered_avatars[i]) /\ passes[filtered_avatars[i] % 4]
        /\ search_input = "" => filtered_avatars = avatars_data
        /\ stack = <<>> =>
              \A i \in 1..Len(avatar_grid) :
                  InResultSet(avatar_grid[i]) /\ passes[avatar_grid[i] % 4]

(* A search that only the authorName matches is on display, no handler        *)
(* pending: some records are shown, some are filtered out.                    *)
C12_Witness ==
    /\ stack = <<>>
    /\ search_input = "AL"
    /\ avatar_grid # <<>>
    /\ Len(filtered_avatars) < Len(avatars_data)
    /\ \A i \in 1..Len(avatar_grid) :
          ~HoldsIgnoringCase("AL", NameOf(avatar_grid[i]))
          /\ ~HoldsIgnoringCase("AL", DescriptionOf(avatar_grid[i]))

(* C13: a fetch requests a next page only after a page of exactly 100         *)
(* records and below 10 pages; a page answered with status 200 and any other  *)
(* number of records, fewer or more, is the fetch's last page and the fetch   *)
(* returns (it does not raise).                                               *)
C13_OnlyExactPageContinues ==
    \A t \in FetchTasks :
        LET tk == tasks[t]
            k == Len(tk.answers)
        IN  /\ k <= max_pages
            /\ \A i \in 1..(k - 1) :
                  tk.answers[i].status = HttpOk /\ tk.answers[i].n = page_size
            /\ \A i \in 1..k :
                  tk.answers[i].status = HttpOk /\ tk.answers[i].n # page_size =>
                      i = k /\ LoopLeft(tk)

(* C14: the step that handles a detailed record resolves its download URL by  *)
(* priority: the asset URL of a standalonewindows package that has one, else  *)
(* the first package in listed order that has an asset URL, else the record's *)
(* own assetUrl; it opens the save dialog for that URL, and when none of the  *)
(* three exists it opens no dialog, starts no task and sets no timer.         *)
WithUrl(packages) == SelectSeq(packages, LAMBDA pkg : pkg.assetUrl # "")

WindowsWithUrl(packages) ==
    SelectSeq(packages, LAMBDA pkg : pkg.platform = "standalonewindows" /\ pkg.assetUrl # "")

UrlByPriority(avatar) ==
    IF WindowsWithUrl(avatar.unityPackages) # <<>>
    THEN WindowsWithUrl(avatar.unityPackages)[1].assetUrl
    ELSE IF WithUrl(avatar.unityPackages) # <<>>
    THEN WithUrl(avatar.unityPackages)[1].assetUrl
    ELSE avatar.assetUrl

HandlesDetail ==
    /\ HeadIs("result", {"detail"})
    /\ Head(mainq).val.found
    /\ mainq' = Tail(mainq)

C14_ResolvedByPriority ==
    [][HandlesDetail =>
          LET url == UrlByPriority(Head(mainq).val.data)
          IN  IF url = ""
              THEN stack' = stack /\ tasks' = tasks /\ timers' = timers
              ELSE /\ Len(stack') = Len(stack) + 1
                   /\ Last(stack').k = "QFileDialog"
                   /\ Last(stack').url = FixUrl(url)]_vars

(* C15: no download GET goes to a URL that contains "/variant/security": a    *)
(* download of u + "/variant/security", u without the segment, fetches u; a   *)
(* download of a URL without the segment fetches that URL; and the URL a save *)
(* dialog was opened for, on the way from an avatar card, is cut already.     *)
DownloadTasks == {t \in TaskIds : tasks[t].fn = "download"}

HasSegment(url) ==
    \E i \in 1..(Len(url) - Len(SecuritySuffix) + 1) :
        SubSeq(url, i, i + Len(SecuritySuffix) - 1) = SecuritySuffix

BeforeSuffix(url) == SubSeq(url, 1, Len(url) - Len(SecuritySuffix))

EndsInSuffix(url) ==
    /\ Len(url) >= Len(SecuritySuffix)
    /\ url = BeforeSuffix(url) \o SecuritySuffix

C15_GetIsCut(given, get) ==
    /\ ~HasSegment(get)
    /\ ~HasSegment(given) => get = given
    /\ EndsInSuffix(given) /\ ~HasSegment(BeforeSuffix(given)) => get = BeforeSuffix(given)

C15_NoSecurityVariantFetched ==
    /\ \A t \in DownloadTasks :
          \A i \in 1..Len(tasks[t].offsets) :
              C15_GetIsCut(tasks[t].arg.given, tasks[t].offsets[i])
    /\ \A i \in 1..Len(stack) : stack[i].k = "QFileDialog" => ~HasSegment(stack[i].url)

(* One download from the form, of "f/variant/security", fetched "f"; one from *)
(* a card whose Windows package URL is "w/variant/security" fetched "w".      *)
C15_Witness ==
    \E t, u \in DownloadTasks :
        /\ tasks[t].arg.given = "f/variant/security" /\ tasks[t].offsets = <<"f">>
        /\ tasks[u].arg.given = "w" /\ tasks[u].offsets = <<"w">>

(* C16: with the total size known from the length header, no two progress     *)
(* notifications of one download carry the same percent value.                *)
C16_PercentOnce ==
    \A t \in DownloadTasks :
        LET sent == tasks[t].progress
        IN  tasks[t].total_size > 0 =>
              \A i, j \in 1..Len(sent) : sent[i] = sent[j] => i = j

(* C17: a download answered 200 without a content-length header passes no     *)
(* percent to progress.emit; what it has written to its opened destination is *)
(* the chunks received so far, in order; once the body has ended it has       *)
(* written all of it and returns the success result that names its            *)
(* destination path, reported as `result`; it raises only when the connection *)
(* broke before the end of the body.                                          *)
Answer(t) == tasks[t].answers[1]

SizeUnknown(t) ==
    /\ tasks[t].answers # <<>>
    /\ Answer(t).status = HttpOk /\ Answer(t).total_size = 0

Received(t) == SubSeq(Answer(t).chunks, 1, Len(Answer(t).chunks) - Len(tasks[t].chunks))

Refused(t) ==
    /\ tasks[t].answers # <<>>
    /\ Answer(t).status \notin {HttpOk, ConnectionFailed}

C18_Aborted ==
    \A t \in DownloadTasks :
        Refused(t) =>
            LET tk == tasks[t]
            IN  /\ tk.pc \in {"raised", "finished"}
                /\ tk.out.kind = "raise"
                /\ Contains(ToString(Answer(t).status), tk.out.val)
                /\ tk.progress = <<>> /\ \A p \in progress_log : p[1] # t
                /\ ~tk.opened /\ tk.written = <<>>
                /\ tk.pc = "finished" => tk.emitted = <<"error", "finished">>
                /\ \A i \in 1..Len(mainq) :
                      mainq[i].task = t =>
                          mainq[i].sig = "error" /\ mainq[i].val = tk.out.val

C18_ButtonBack ==
    (HeadIs("error", {"download"}) /\ mainq' = Tail(mainq)) => download_btn'

C18_RefusedDownloadAborts == []C18_Aborted /\ [][C18_ButtonBack]_vars

(* A download was answered 403, another 206; both errors have been handled    *)
(* and the button is enabled.                                                 *)
C18_Witness ==
    \E t, u \in DownloadTasks :
        /\ Refused(t) /\ Answer(t).status = 403 /\ Handled(t)
        /\ Refused(u) /\ Answer(u).status = 206 /\ Handled(u)
        /\ tasks[t].out.val = "Download failed with status 403"
        /\ download_btn

(* C19: every code handed to verify_2fa_worker has exactly six characters,    *)
(* all of them digits.                                                        *)
VerifyTasks == {t \in TaskIds : tasks[t].fn = "verify"}

AllDigits(code) == \A i \in 1..Len(code) : IsDigit(SubSeq(code, i, i))

C19_SixDigitCodes ==
    \A t \in VerifyTasks :
        Len(tasks[t].arg.code) = code_max_length /\ AllDigits(tasks[t].arg.code)

(* C20: a task that met a transport or API error (an answer with a status     *)
(* other than 200, a request that raised, an API exception at login) has      *)
(* stopped and issued no request after the failure, and the message shown     *)
(* when its report is handled contains the failure's status code or           *)
(* exception text.                                                            *)
LoginFailures == {"api_exception", "exception"}

MetFailure(t) ==
    IF tasks[t].fn = "login"
    THEN tasks[t].pc # "queued" /\ tasks[t].arg.kind \in LoginFailures
    ELSE /\ tasks[t].fn \in {"fetch", "detail", "download"}
         /\ tasks[t].answers # <<>>
         /\ Last(tasks[t].answers).status # HttpOk

FailureText(t) ==
    IF tasks[t].fn = "login" THEN tasks[t].arg.reason
    ELSE IF Last(tasks[t].answers).status = ConnectionFailed THEN "connection failed"
    ELSE ToString(Last(tasks[t].answers).status)

(* The text of the message box the handler of the queued report e opens, ""   *)
(* when it opens none: handle_login_error 1930, handle_login_result 1870,     *)
(* continue_avatar_download 2345-2349, handle_avatars_error 2060,             *)
(* handle_avatar_download_error 2441, handle_download_error 2679.             *)
MessageShown(e) ==
    LET fn == tasks[e.task].fn
    IN  IF e.sig = "error"
        THEN IF fn \in {"login", "verify"}
             THEN "An unexpected error occurred: " \o e.val
             ELSE e.val
        ELSE IF e.sig = "result" /\ fn = "login"
        THEN IF ~e.val.success /\ ~e.val.need_2fa
             THEN "Failed to login: " \o e.val.error
             ELSE ""
        ELSE IF e.sig = "result" /\ fn = "detail" /\ ~e.val.found
        THEN "Could not fetch detailed avatar information. Please try again."
        ELSE ""

C20_Stopped ==
    \A t \in TaskIds :
        MetFailure(t) =>
            /\ tasks[t].pc \in {"returned", "raised", "finished"}
            /\ tasks[t].fn # "login" => Len(tasks[t].offsets) = Len(tasks[t].answers)

C20_Surfaced ==
    (/\ mainq # <<>>
     /\ Head(mainq).sig \in {"result", "error"}
     /\ MetFailure(Head(mainq).task)
     /\ mainq' = Tail(mainq))
    => Contains(FailureText(Head(mainq).task), MessageShown(Head(mainq)))

C20_ErrorsSurfacedVerbatim == []C20_Stopped /\ [][C20_Surfaced]_vars

(* C21: the file name proposed for an avatar is its name with each of the     *)
(* characters \ / : * ? " < > | replaced by '_', every other character and   *)
(* the length unchanged ('My/Avatar:Test*' gives 'My_Avatar_Test_'), and      *)
(* sanitizing a sanitized name changes nothing; the save dialog is opened     *)
(* with that name and the extension.                                          *)
CharAt(s, i) == SubSeq(s, i, i)

SampleNames ==
    {d.name : d \in DetailRecords} \cup {"", "\\/:*?\"<>|", "a.b c-d_e(1)", "||", "x\\\\y"}

IsSanitized(name, safe) ==
    /\ Len(safe) = Len(name)
    /\ \A i \in 1..Len(name) :
          CharAt(safe, i) = IF CharAt(name, i) \in InvalidChars THEN "_" ELSE CharAt(name, i)

DetailTasks == {t \in TaskIds : tasks[t].fn = "detail"}

C21_FilenameSanitized ==
    /\ \A name \in SampleNames :
          /\ IsSanitized(name, safe_name(name))
          /\ safe_name(safe_name(name)) = safe_name(name)
    /\ safe_name("My/Avatar:Test*") = "My_Avatar_Test_"
    /\ \A i \in 1..Len(stack) :
          stack[i].k = "QFileDialog" =>
              \E t \in DetailTasks :
                  /\ tasks[t].out.kind = "return" /\ tasks[t].out.val.found
                  /\ LET name == tasks[t].out.val.data.name
                     IN  /\ Len(stack[i].filename) = Len(name) + Len(file_ext)
                         /\ IsSanitized(name, SubSeq(stack[i].filename, 1, Len(name)))

(* The save dialog is open for the avatar named 'My/Avatar:Test*'. *)
C21_Witness ==
    /\ stack # <<>> /\ Top.k = "QFileDialog"
    /\ Top.filename = "My_Avatar_Test_.vrca"
    /\ \E t \in DetailTasks : tasks[t].out.val.data.name = "My/Avatar:Test*"

(* C22: when the handled detail record lists at least one standalonewindows   *)
(* package with a non-empty asset URL, the save dialog is opened for the      *)
(* asset URL of a standalonewindows package (with the security variant cut),  *)
(* wherever in the list that package stands.                                  *)
IsWindowsUrl(avatar, url) ==
    \E i \in 1..Len(avatar.unityPackages) :
        /\ avatar.unityPackages[i].platform = "standalonewindows"
        /\ avatar.unityPackages[i].assetUrl # ""
        /\ url = FixUrl(avatar.unityPackages[i].assetUrl)

C22_WindowsUrlWhenAnyHasOne ==
    [][HandlesDetail /\ WindowsWithUrl(Head(mainq).val.data.unityPackages) # <<>> =>
          /\ Len(stack') = Len(stack) + 1
          /\ Last(stack').k = "QFileDialog"
          /\ IsWindowsUrl(Head(mainq).val.data, Last(stack').url)]_vars

(* C23: what a fetch has collected, and returns, is the concatenation of the  *)
(* pages it was answered, in request order, each record of a page once (with  *)
(* pages of at most 100 records: the listing's records 1..N in order); and    *)
(* the step that handles a fetch result leaves exactly that result in         *)
(* avatars_data, whatever the list held before.                               *)
RECURSIVE PagesReceived(_, _)
PagesReceived(tk, k) ==
    IF k = 0 THEN <<>>
    ELSE PagesReceived(tk, k - 1) \o
         (IF tk.answers[k].status = HttpOk
          THEN [i \in 1..tk.answers[k].n |-> tk.offsets[k] + i] ELSE <<>>)

C23_Collected ==
    \A t \in FetchTasks :
        LET tk == tasks[t]
            pages == PagesReceived(tk, Len(tk.answers))
        IN  /\ tk.all_avatars = pages
            /\ pages = [i \in 1..Len(pages) |-> i]
            /\ LoopLeft(tk) => tk.out.val = pages

C23_Replaced ==
    HeadIs("result", {"fetch"}) /\ mainq' = Tail(mainq) =>
        avatars_data' = tasks[Head(mainq).task].out.val

C23_ConcatenatedThenReplaced == []C23_Collected /\ [][C23_Replaced]_vars

(* A fetch of two pages, 100 and 40 records, was handled and replaced the 60  *)
(* records of the fetch before it.                                            *)
C23_Witness ==
    /\ Len(avatars_data) = page_size + 40
    /\ \E t, u \in FetchTasks :
          /\ t < u
          /\ Len(tasks[t].out.val) = PriorResult
          /\ Len(tasks[u].answers) = 2
          /\ tasks[u].pc = "finished" /\ avatars_data = tasks[u].out.val
          /\ mainq = <<>>

(* C24: whenever no handler is running or suspended, the grid holds the       *)
(* records of the current page slice of filtered_avatars, each once, in       *)
(* slice order.                                                               *)
C24_GridIsCurrentSlice ==
    stack = <<>> => avatar_grid = PageSlice(filtered_avatars, current_page, items_per_page)

(* C25: while a download task is in flight (handed to the pool and not yet    *)
(* run to its end) the Download File button is disabled, and at most one      *)
(* download task is in flight.                                                *)
DownloadsInFlight == {t \in DownloadTasks : tasks[t].pc # "finished"}

C25_OneDownloadAtATime ==
    /\ Cardinality(DownloadsInFlight) <= 1
    /\ DownloadsInFlight # {} => ~download_btn

(* C26: at most one login or verification task is in flight (started, its     *)
(* result or error not yet handled); the login button is disabled while one   *)
(* is; and when none is and no dialog is open the button is enabled.          *)
Unhandled(t) ==
    \/ tasks[t].pc # "finished"
    \/ \E i \in 1..Len(mainq) : mainq[i].task = t /\ mainq[i].sig \in {"result", "error"}

AuthInFlight == {t \in TaskIds : tasks[t].fn \in {"login", "verify"} /\ Unhandled(t)}

C26_OneAuthTask ==
    /\ Cardinality(AuthInFlight) <= 1
    /\ AuthInFlight # {} => ~login_btn
    /\ AuthInFlight = {} /\ stack = <<>> => login_btn

(* C27: the step that handles a successful verification result installs, as   *)
(* api_client, the session of the login that asked for that verification      *)
(* (the session the verification task was started for).                       *)
HandlesVerified ==
    /\ HeadIs("result", {"verify"})
    /\ Head(mainq).val.success
    /\ mainq' = Tail(mainq)

C27_InstallsOwnSession ==
    [][HandlesVerified => api_client' = tasks[Head(mainq).task].arg.session]_vars

(* C28: whenever no handler is running or suspended, the manager and the      *)
(* pagination widget hold the same current page and the same page size.       *)
C28_PaginationCopiesAgree ==
    stack = <<>> =>
        /\ current_page = pagination.current_page
        /\ items_per_page = pagination.items_per_page

(* Page 3 of a search result at ten per page, every handler returned. *)
C28_Witness ==
    /\ stack = <<>>
    /\ search_input = "CAT"
    /\ current_page = 3 /\ pagination.current_page = 3
    /\ items_per_page = 10 /\ pagination.items_per_page = 10
    /\ avatar_grid # <<>>

(* C29: whenever no handler is running or suspended, filtered_avatars is the  *)
(* list of the records of the current avatars_data that hold the current      *)
(* search text (letter case ignored) in name, authorName or description, in   *)
(* the order of avatars_data; all of avatars_data when the text is empty.     *)
CurrentFilter ==
    LET passes == [k \in 0..3 |-> PassesFilter(search_input, k)]
    IN  SelectSeq(avatars_data, LAMBDA a : passes[a % 4])

C29_FilteredIsCurrent == stack = <<>> => filtered_avatars = CurrentFilter

(* The search text was edited and a new fetch result of 40 records replaced   *)
(* the list: the filtered set is the filter of the new list by that text.     *)
C29_Witness ==
    /\ stack = <<>> /\ mainq = <<>>
    /\ search_input = "AL"
    /\ Len(avatars_data) = 40
    /\ filtered_avatars # <<>> /\ Len(filtered_avatars) < Len(avatars_data)

(* One user paging through a list of any length up to MaxCount, with any of   *)
(* the search texts and page sizes, waiting for each display to finish.       *)
InitSlices ==
    /\ api_client = 1
    /\ temp_api_client = 0
    /\ login_btn = TRUE
    /\ authed = {1}
    /\ \E n \in 0..MaxCount :
          LET first == FetchIteration([Worker("fetch", "all") EXCEPT !.pc = "running",
                                                                    !.cookies = 1],
                                      HttpOk, Min(n, page_size))
              last == IF n < page_size THEN first
                      ELSE FetchIteration(first, HttpOk, n - page_size)
          IN  /\ tasks = <<LoginDone, [last EXCEPT !.pc = "finished",
                                                   !.emitted = <<"result", "finished">>]>>
              /\ SetViewInit(ShownView(n))
              /\ avatar_grid = PageSlice(ShownView(n).filtered_avatars, 1,
                                         DefaultItemsPerPage)
    /\ mainq = <<>> /\ stack = <<>>
    /\ timers = [refresh |-> 0, download |-> 0, check_login |-> 0]
    /\ search_input = ""
    /\ InitDownload

NextSlices ==
    \/ \E text \in SearchTexts : Idle /\ TypeSearch(text)
    \/ Idle /\ ClickPrev
    \/ Idle /\ ClickNext
    \/ \E index \in 0..3 : Idle /\ SelectItemsPerPage(index)
    \/ ResumeClear \/ ResumeDisplay

SpecSlices == InitSlices /\ [][NextSlices]_vars

(* C30: the page slices for the pages 1..total_pages, concatenated in page    *)
(* order, give filtered_avatars; every slice has at most items_per_page       *)
(* records, every page but the last exactly items_per_page, and when the      *)
(* filtered set is not empty no page of 1..total_pages is empty; and with the *)
(* handlers run one at a time, the slice of the current page is what the grid *)
(* shows.                                                                     *)
RECURSIVE SlicesUpTo(_)
SlicesUpTo(k) ==
    IF k = 0 THEN <<>>
    ELSE SlicesUpTo(k - 1) \o PageSlice(filtered_avatars, k, items_per_page)

C30_SlicesPartition ==
    LET total == pagination.total_pages
        slice == [k \in 1..total |-> PageSlice(filtered_avatars, k, items_per_page)]
    IN  /\ SlicesUpTo(total) = filtered_avatars
        /\ \A k \in 1..total : Len(slice[k]) <= items_per_page
        /\ \A k \in 1..(total - 1) : Len(slice[k]) = items_per_page
        /\ filtered_avatars # <<>> => \A k \in 1..total : slice[k] # <<>>
        /\ Idle => avatar_grid = slice[current_page]

(* The last of several pages is on display and it is a short one. *)
C30_Witness ==
    /\ Idle
    /\ pagination.total_pages > 2
    /\ current_page = pagination.total_pages
    /\ avatar_grid # <<>> /\ Len(avatar_grid) < items_per_page
    /\ Last(avatar_grid) = Last(filtered_avatars)
====
